---- MODULE Spec2Model ----
(***************************************************************************)
(* State-machine model of FurnitureSawyerDenseRewardEnv, the multi-phase   *)
(* dense reward of furniture/env/furniture_sawyer_dense.py.                *)
(*                                                                         *)
(* Lengths and cosine similarities are integers in thousandths (0.02 is    *)
(* 20, a cosine of 0.95 is 950).  Positions are reduced to the coordinates *)
(* the reward reads: a part position is a horizontal coordinate xy and a   *)
(* height z; the table site moves horizontally; the leg site sits          *)
(* vertically above the table site at offset site_dz.                      *)
(*                                                                         *)
(* An attribute that the Python object does not have yet is Unset; an      *)
(* attribute holding x is Some(x).  Reading an Unset attribute raises      *)
(* AttributeError; a failed assert raises AssertionError.  The variable     *)
(* raised records that the last call raised, exception which error.       *)
(***************************************************************************)
EXTENDS Integers, Sequences, FiniteSets, TLC

VARIABLES
    self,     \* the fields of the environment object
    ret,      \* what the last _compute_reward call returned
    raised,   \* TRUE once a call raised an exception
    exception,\* the exception the last call raised, NoException if none
    pc,       \* "constructed", "reset" (after _reset) or "stepped"
    entry,    \* the phase, subtask, flags and counter as the last call found them
    given,    \* what the last call was given: the answers of the backend,
              \* the action, whether it was the last step the horizon allows
    run,      \* differential mode, phases before move_leg_fine: the steps
              \* dispatched in one phase of one subtask since the last
              \* change of phase, as the baseline the first of them found
              \* and the sum of their distance terms
    awarded,  \* how often the current subtask has paid each one-time bonus
    sampler   \* the call of UniformRandomSampler.sample in progress: the
              \* objects still to place, those placed, the poses so far

vars == <<self, ret, raised, exception, pc, entry, given, run, awarded,
          sampler>>

-----------------------------------------------------------------------------
(* Configuration (config.* copied by __init__) and recipe.                 *)

_phases ==
    <<"move_eef_above_leg", "lower_eef_to_leg", "grasp_leg", "lift_leg",
      "align_leg", "move_leg", "move_leg_fine">>

_grip_open_phases == {"move_eef_above_leg", "lower_eef_to_leg"}

\* self._phases[self._phase_i] with Python's 0-based index
PhaseName(i) == _phases[i + 1]

_phase_bonus == 1000
_aligned_bonus_coef == 10
_rot_threshold == 50
_align_pos_threshold == 20
_align_rot_threshold == 900
_move_pos_threshold == 20
_move_rot_threshold == 950
z_finedist == 50

\* the penalty and wrist-alignment coefficients, in units of the model's
\* rewards
_ctrl_penalty_coef == 1
_gripper_penalty_coef == 2
_eef_rot_dist_coef == 3
_eef_up_rot_dist_coef == 5
_move_other_part_penalty_coef == 7

\* the coefficients of the phase rewards
_eef_pos_dist_coef == 4
_lower_eef_pos_dist_coef == 6
_lift_dist_coef == 8
_grasp_dist_coef == 3
_align_pos_dist_coef == 9
_align_rot_dist_coef == 11
_move_pos_dist_coef == 12
_move_rot_dist_coef == 13
_move_fine_rot_dist_coef == 10
_move_fine_pos_dist_coef == 14
_touch_coef == 5

\* number of connections of the recipe (len of recipe["recipe"])
_success_num_conn == 2

\* recipe["recipe"][i] and site_recipe[i]; the second connection has no
\* allowed-angle list in its leg site name, the others have one
_recipe ==
    [i \in 0 .. (_success_num_conn - 1) |->
        [leg |-> <<"leg", i>>, table |-> <<"table", i>>,
         leg_site |-> <<"leg_site", i>>, table_site |-> <<"table_site", i>>,
         allowed_angles |-> IF i = 1 THEN << >> ELSE <<"0", "90">>]]

-----------------------------------------------------------------------------
(* Helpers.                                                                *)

Unset == << >>
Some(x) == <<x>>
IsSet(a) == a # Unset
Get(a) == a[1]

Abs(x) == IF x < 0 THEN -x ELSE x

\* later mappings override earlier ones, as in {**info, **phase_info, ...}
Merge(a, b) == b @@ a
Min(a, b) == IF a < b THEN a ELSE b

\* floor of the square root; np.linalg.norm of a two-component difference
RECURSIVE ISqrtFrom(_, _)
ISqrtFrom(n, k) == IF (k + 1) * (k + 1) > n THEN k ELSE ISqrtFrom(n, k + 1)
Norm2(dx, dz) ==
    IF dx = 0 THEN Abs(dz)
    ELSE IF dz = 0 THEN Abs(dx)
    ELSE ISqrtFrom(dx * dx + dz * dz, 0)

-----------------------------------------------------------------------------
(* What the physics backend answers during one call.  Every field is one  *)
(* query of the source: the finger contacts, the cosine similarities of    *)
(* the site axes, the positions.  A field the call does not query on its   *)
(* path keeps the value NotRead.                                           *)

NotRead == "not read"

\* finger contacts <<left, right>>
ContactVals == {<<TRUE, TRUE>>, <<TRUE, FALSE>>, <<FALSE, TRUE>>}
\* wrist axes <<eef_up_grasp_dist, eef_forward_grasp_dist>>: a stable grip
\* short of perfect alignment, the up axis on the threshold, the forward
\* axis across the grasp vector
StableWrist == <<970, 0 - 980>>
WristVals == {StableWrist, <<1000 - _rot_threshold, 0 - 1000>>, <<1000, 0>>}
TablePosVals == {0, 101}
TableStartVals == {0}
LegXYVals == {0}
\* part heights while lifting (target height 0.2 above the start): on the
\* lift margin of 0.01, above it, within reach of the target; and while
\* aligning (around the height 0.195 of the lift success): far, on the
\* position threshold, within it
LegZVals == {10, 20, 195}
AlignLegZVals == {20, 195 - _align_pos_threshold, 195}
LegStartZVals == {0}
\* poses of the leg site over the table site: the height offset site_dz and
\* the cosines of the up and forward axes, each threshold met, missed and
\* hit exactly
SitePoseVals ==
    {[site_dz |-> d[1], cos_up |-> d[2], cos_forward |-> d[3]] : d \in
        {<<5, 1000, 1000>>,
         <<_move_pos_threshold, 1000, 1000>>,
         <<z_finedist - 5, 1000, 1000>>,
         <<5, _move_rot_threshold, 1000>>,
         <<z_finedist - 5, _move_rot_threshold, 1000>>,
         <<z_finedist - 5, _align_rot_threshold, 1000>>,
         <<5, 1000, _align_rot_threshold>>,
         <<z_finedist - 5, 1000, _align_rot_threshold>>}}
\* poses read while the phase is move_leg: over the fine-alignment height
\* with every threshold met, then the position, the up axis and the forward
\* axis each exactly on its threshold
MovePoseVals ==
    {[site_dz |-> d[1], cos_up |-> d[2], cos_forward |-> d[3]] : d \in
        {<<z_finedist - 5, 1000, 1000>>,
         <<z_finedist - _move_pos_threshold, 1000, 1000>>,
         <<z_finedist - 5, _move_rot_threshold, 1000>>,
         <<z_finedist - 5, 1000, _move_rot_threshold>>}}
ProjTableVals == {980}
ProjLegVals == {990}
EefXYVals == {10}
EefZVals == {10, 85}
GraspZVals == {20}
\* the gripper action ac[-2] of the episodes that do not vary the action:
\* closing
GripActionVals == {1000}
\* the arm components action[:-2], two of them: at rest, one at full
\* deflection, both in between
ArmAtRest == <<0, 0>>
ArmFull == <<0 - 1000, 0>>
ArmPartial == <<60, 0 - 80>>

\* the queries _update_reward_variables makes for the parts of a subtask
StartReads ==
    [table_site_pos : TableStartVals,
     leg_pos : [xy : LegXYVals, z : LegStartZVals],
     eef_xy : EefXYVals, eef_z : EefZVals, grasp_z : GraspZVals]

NoStartReads ==
    [table_site_pos |-> NotRead, leg_pos |-> [xy |-> NotRead, z |-> NotRead],
     eef_xy |-> NotRead, eef_z |-> NotRead, grasp_z |-> NotRead]

-----------------------------------------------------------------------------
(* _update_reward_variables, _reset_reward_variables, _set_next_subtask    *)

\* eef-above-leg distance: xy distance plus height distance to z = 0.08
EefAboveLegDist(p) == [xy |-> p.eef_xy, z |-> Abs(p.eef_z - 80)]

\* eef-to-leg distance: grasp position lowered by 0.015
EefLegDist(p) == [xy |-> p.eef_xy, z |-> Abs(p.eef_z - (p.grasp_z - 15))]

\* _update_reward_variables leaving the fine-alignment counter as it was
_update_reward_variables_KeepsCount(s, subtask_step, p) ==
    LET r == _recipe[subtask_step]
        s1 == [s EXCEPT
                 !._phase_i = 0,
                 !._leg = r.leg,
                 !._table = r.table,
                 !._leg_site = r.leg_site,
                 !._table_site = r.table_site,
                 !._leg_touched = FALSE,
                 !._leg_lift = FALSE,
                 !._init_table_site_pos = p.table_site_pos,
                 !._init_lift_leg_pos = p.leg_pos,
                 !._lift_leg_pos = [xy |-> p.leg_pos.xy, z |-> p.leg_pos.z + 200],
                 !._leg_allowed_angles = r.allowed_angles]
        d == EefAboveLegDist(p)
    IN  IF s._diff_rew
        THEN [s1 EXCEPT
                 !._prev_eef_above_leg_dist = Some(d.xy + d.z),
                 !._prev_grasp_dist = Some(0 - 1000),
                 !._prev_lift_leg_z_dist = Some(200),
                 !._prev_lift_leg_xy_dist = Some(0)]
        ELSE s1

_update_reward_variables(s, subtask_step, p) ==
    LET r == _recipe[subtask_step]
        s1 == [s EXCEPT
                 !._phase_i = 0,
                 !._leg = r.leg,
                 !._table = r.table,
                 !._leg_site = r.leg_site,
                 !._table_site = r.table_site,
                 !._leg_touched = FALSE,
                 !._leg_lift = FALSE,
                 !._init_table_site_pos = p.table_site_pos,
                 !._init_lift_leg_pos = p.leg_pos,
                 !._lift_leg_pos = [xy |-> p.leg_pos.xy, z |-> p.leg_pos.z + 200],
                 !._leg_fine_aligned = 0,
                 !._leg_allowed_angles = r.allowed_angles]
        d == EefAboveLegDist(p)
    IN  IF s._diff_rew
        THEN [s1 EXCEPT
                 !._prev_eef_above_leg_dist = Some(d.xy + d.z),
                 !._prev_grasp_dist = Some(0 - 1000),
                 !._prev_lift_leg_z_dist = Some(200),
                 !._prev_lift_leg_xy_dist = Some(0)]
        ELSE s1

_reset_reward_variables(s, p) ==
    _update_reward_variables(
        [s EXCEPT !._subtask_step = s._preassembled], s._preassembled, p)

\* _set_next_subtask with the subtask index wrapping around the recipe
_set_next_subtask_Wraps(s, p) ==
    LET s1 == [s EXCEPT !._subtask_step =
                            (s._subtask_step + 1) % _success_num_conn]
    IN  IF s1._subtask_step = _success_num_conn
        THEN [self |-> s1, result |-> TRUE]
        ELSE [self |-> _update_reward_variables(s1, s1._subtask_step, p),
              result |-> FALSE]

\* _set_next_subtask without the call of _update_reward_variables
_set_next_subtask_NoUpdate(s, p) ==
    LET s1 == [s EXCEPT !._subtask_step = s._subtask_step + 1]
    IN  [self |-> s1, result |-> s1._subtask_step = _success_num_conn]

\* returns the object and the method's return value
_set_next_subtask(s, p) ==
    LET s1 == [s EXCEPT !._subtask_step = s._subtask_step + 1]
    IN  IF s1._subtask_step = _success_num_conn
        THEN [self |-> s1, result |-> TRUE]
        ELSE [self |-> _update_reward_variables(s1, s1._subtask_step, p),
              result |-> FALSE]

-----------------------------------------------------------------------------
(* _collect_values                                                         *)

\* _collect_values measuring the table displacement from the origin
_collect_values_FromOrigin(s, b) ==
    LET forward == IF Len(s._leg_allowed_angles) > 0 THEN b.cos_forward ELSE 1000
    IN [s EXCEPT !._current_values =
          [left |-> b.left,
           right |-> b.right,
           leg_touched |-> b.left /\ b.right,
           leg_pos |-> b.leg_pos,
           lift |-> b.leg_pos.z > s._lift_leg_pos.z,
           move_pos_dist |-> Abs(b.site_dz),
           move_above_pos_dist |-> Abs(z_finedist - b.site_dz),
           move_ang_dist |-> b.cos_up,
           move_forward_ang_dist |-> forward,
           proj_table |-> b.proj_table,
           proj_leg |-> b.proj_leg,
           table_displacement |-> Abs(b.table_site_pos)]]

\* _collect_values holding on to a contact the last step collected
_collect_values_StickyTouch(s, b) ==
    LET forward == IF Len(s._leg_allowed_angles) > 0 THEN b.cos_forward ELSE 1000
    IN [s EXCEPT !._current_values =
          [left |-> b.left,
           right |-> b.right,
           leg_touched |-> (b.left /\ b.right)
                               \/ s._current_values.leg_touched,
           leg_pos |-> b.leg_pos,
           lift |-> b.leg_pos.z > s._lift_leg_pos.z,
           move_pos_dist |-> Abs(b.site_dz),
           move_above_pos_dist |-> Abs(z_finedist - b.site_dz),
           move_ang_dist |-> b.cos_up,
           move_forward_ang_dist |-> forward,
           proj_table |-> b.proj_table,
           proj_leg |-> b.proj_leg,
           table_displacement |-> Abs(b.table_site_pos - s._init_table_site_pos)]]

_collect_values(s, b) ==
    LET forward == IF Len(s._leg_allowed_angles) > 0 THEN b.cos_forward ELSE 1000
    IN [s EXCEPT !._current_values =
          [left |-> b.left,
           right |-> b.right,
           leg_touched |-> b.left /\ b.right,
           leg_pos |-> b.leg_pos,
           lift |-> b.leg_pos.z > s._lift_leg_pos.z,
           move_pos_dist |-> Abs(b.site_dz),
           move_above_pos_dist |-> Abs(z_finedist - b.site_dz),
           move_ang_dist |-> b.cos_up,
           move_forward_ang_dist |-> forward,
           proj_table |-> b.proj_table,
           proj_leg |-> b.proj_leg,
           table_displacement |-> Abs(b.table_site_pos - s._init_table_site_pos)]]

-----------------------------------------------------------------------------
(* Phase reward functions.  Each returns the object as it leaves it, the   *)
(* info mapping it emits, and whether it raised (a read of an attribute    *)
(* that was never assigned).  e holds the queries the function makes.      *)

NoException == "none"

Raise(s) ==
    [self |-> s, rew |-> 0, info |-> << >>, dist_rew |-> 0, once_rew |-> 0,
     raised |-> TRUE, exception |-> "AttributeError"]
\* what a phase reward function returns: the object as it leaves it, the
\* reward, the info mapping, and two of its local values: dist_rew, the
\* distance term of the reward, and once_rew, the one-time bonus it added
Return(s, rew, info, dist_rew, once_rew) ==
    [self |-> s, rew |-> rew, info |-> info, dist_rew |-> dist_rew,
     once_rew |-> once_rew, raised |-> FALSE, exception |-> NoException]

\* a distance term: the progress since the last step times ten in
\* differential mode, the negative distance otherwise
DistRew(s, prev, dist, coef) ==
    IF s._diff_rew THEN (Get(prev) - dist) * coef * 10
    ELSE (0 - dist) * coef

\* an angular term over a cosine similarity
AngRew(s, prev, cos, coef) ==
    IF s._diff_rew THEN (cos - Get(prev)) * coef * 10
    ELSE (cos - 1000) * coef

\* np.exp(-25 * x) for x = 0, 0.005, ..., 0.05 and np.exp(-3 * (1 - x)) for
\* x = 0.90, 0.91, ..., 1.00, rounded to thousandths
Exp25(x) ==
    <<1000, 882, 779, 687, 607, 535, 472, 417, 368, 325, 287>>[x \div 5 + 1]
Exp3(x) ==
    <<741, 763, 787, 811, 835, 861, 887, 914, 942, 970, 1000>>
        [(x - 900) \div 10 + 1]

\* _move_eef_above_leg_reward measuring every step from the baseline of the
\* subtask start: the baseline is not moved to the distance of the step
_move_eef_above_leg_reward_FixedBaseline(s, e) ==
    LET d == EefAboveLegDist(e)
        eef_above_leg_dist == d.xy + d.z
        rew == DistRew(s, s._prev_eef_above_leg_dist, eef_above_leg_dist,
                       _eef_pos_dist_coef)
        info == [eef_above_leg_dist |-> eef_above_leg_dist,
                 eef_above_leg_rew |-> rew,
                 move_eef_above_leg_succ |-> d.xy < 20 /\ d.z < 20]
    IN  IF s._diff_rew /\ ~IsSet(s._prev_eef_above_leg_dist) THEN Raise(s)
        ELSE Return(s, rew, info, rew, 0)

_move_eef_above_leg_reward(s, e) ==
    LET d == EefAboveLegDist(e)
        eef_above_leg_dist == d.xy + d.z
        rew == DistRew(s, s._prev_eef_above_leg_dist, eef_above_leg_dist,
                       _eef_pos_dist_coef)
        info == [eef_above_leg_dist |-> eef_above_leg_dist,
                 eef_above_leg_rew |-> rew,
                 move_eef_above_leg_succ |-> d.xy < 20 /\ d.z < 20]
    IN  IF s._diff_rew
        THEN IF ~IsSet(s._prev_eef_above_leg_dist) THEN Raise(s)
             ELSE Return([s EXCEPT !._prev_eef_above_leg_dist =
                                       Some(eef_above_leg_dist)],
                         rew, info, rew, 0)
        ELSE Return(s, rew, info, rew, 0)

_lower_eef_to_leg_reward(s, e) ==
    LET d == EefLegDist(e)
        eef_leg_dist == Min(d.xy + d.z, 300)
        rew == DistRew(s, s._prev_eef_leg_dist, eef_leg_dist,
                       _lower_eef_pos_dist_coef)
        info == [eef_leg_dist |-> eef_leg_dist,
                 eef_leg_rew |-> rew,
                 lower_eef_to_leg_succ |-> d.xy < 20 /\ d.z < 10]
    IN  IF s._diff_rew
        THEN IF ~IsSet(s._prev_eef_leg_dist) THEN Raise(s)
             ELSE Return([s EXCEPT !._prev_eef_leg_dist = Some(eef_leg_dist)],
                         rew, info, rew, 0)
        ELSE Return(s, rew, info, rew, 0)

\* _grasp_leg_reward adding the contact bonus on every step
_grasp_leg_reward_BonusEveryStep(s, e, ac) ==
    LET low == _lower_eef_to_leg_reward(s, e)
        s1 == low.self
        leg_touched == s1._current_values.leg_touched
        grasp_leg_rew == (ac.grip - Get(s1._prev_grasp_dist)) * _grasp_dist_coef
        first_touch == leg_touched /\ ~s1._leg_touched
        touch_rew == _touch_coef * 10
        s2 == [s1 EXCEPT !._prev_grasp_dist = Some(ac.grip),
                         !._leg_touched = IF first_touch THEN TRUE ELSE @]
        info == [grasp_leg_succ |-> leg_touched,
                 grasp_leg_rew |-> grasp_leg_rew,
                 touch_rew |-> touch_rew] @@ low.info
    IN  IF low.raised THEN low
        ELSE IF ~IsSet(s1._prev_grasp_dist) THEN Raise(s1)
        ELSE Return(s2, low.rew + grasp_leg_rew + touch_rew, info,
                    low.dist_rew, touch_rew)

_grasp_leg_reward(s, e, ac) ==
    LET low == _lower_eef_to_leg_reward(s, e)
        s1 == low.self
        leg_touched == s1._current_values.leg_touched
        grasp_leg_rew == (ac.grip - Get(s1._prev_grasp_dist)) * _grasp_dist_coef
        first_touch == leg_touched /\ ~s1._leg_touched
        touch_rew == IF first_touch THEN _touch_coef * 10 ELSE 0
        s2 == [s1 EXCEPT !._prev_grasp_dist = Some(ac.grip),
                         !._leg_touched = IF first_touch THEN TRUE ELSE @]
        info == [grasp_leg_succ |-> leg_touched,
                 grasp_leg_rew |-> grasp_leg_rew,
                 touch_rew |-> touch_rew] @@ low.info
    IN  IF low.raised THEN low
        ELSE IF ~IsSet(s1._prev_grasp_dist) THEN Raise(s1)
        ELSE Return(s2, low.rew + grasp_leg_rew + touch_rew, info,
                    low.dist_rew, touch_rew)

\* _lift_leg_reward adding the lift bonus on every step the part is lifted
_lift_leg_reward_BonusWhileLifted(s) ==
    LET v == s._current_values
        leg_pos == v.leg_pos
        touch_rew == IF v.leg_touched THEN _touch_coef \div 5 ELSE 0
        xy_dist == Abs(s._lift_leg_pos.xy - leg_pos.xy)
        z_dist == Abs(s._lift_leg_pos.z - leg_pos.z)
        dist_rew ==
            IF s._diff_rew
            THEN DistRew(s, s._prev_lift_leg_z_dist, z_dist, _lift_dist_coef)
                 + DistRew(s, s._prev_lift_leg_xy_dist, xy_dist,
                           _lift_dist_coef)
            ELSE (0 - (z_dist + xy_dist)) * _lift_dist_coef
        s1 == [s EXCEPT !._prev_lift_leg_z_dist = Some(z_dist),
                        !._prev_lift_leg_xy_dist = Some(xy_dist)]
        sd == IF s._diff_rew THEN s1 ELSE s
        leg_lift == leg_pos.z > s._init_lift_leg_pos.z + 10
        first_lift == v.leg_touched /\ leg_lift
        once_rew == IF first_lift THEN _phase_bonus \div 10 ELSE 0
        lift_leg_rew == dist_rew + once_rew
        s2 == [sd EXCEPT !._leg_lift = IF first_lift THEN TRUE ELSE @]
        info == [touch_rew |-> touch_rew,
                 lift |-> leg_lift,
                 lift_leg_rew |-> lift_leg_rew,
                 lift_leg_xy_dist |-> xy_dist,
                 lift_leg_z_dist |-> z_dist,
                 lift_leg_succ |-> xy_dist < 30 /\ z_dist < 10]
    IN  IF s._diff_rew /\ ~(IsSet(s._prev_lift_leg_z_dist)
                            /\ IsSet(s._prev_lift_leg_xy_dist))
        THEN Raise(s)
        ELSE Return(s2, lift_leg_rew + touch_rew, info, dist_rew, once_rew)

\* _lift_leg_reward reporting success only once the lift bonus was paid
_lift_leg_reward_SuccAfterBonus(s) ==
    LET v == s._current_values
        leg_pos == v.leg_pos
        touch_rew == IF v.leg_touched THEN _touch_coef \div 5 ELSE 0
        xy_dist == Abs(s._lift_leg_pos.xy - leg_pos.xy)
        z_dist == Abs(s._lift_leg_pos.z - leg_pos.z)
        dist_rew ==
            IF s._diff_rew
            THEN DistRew(s, s._prev_lift_leg_z_dist, z_dist, _lift_dist_coef)
                 + DistRew(s, s._prev_lift_leg_xy_dist, xy_dist,
                           _lift_dist_coef)
            ELSE (0 - (z_dist + xy_dist)) * _lift_dist_coef
        s1 == [s EXCEPT !._prev_lift_leg_z_dist = Some(z_dist),
                        !._prev_lift_leg_xy_dist = Some(xy_dist)]
        sd == IF s._diff_rew THEN s1 ELSE s
        leg_lift == leg_pos.z > s._init_lift_leg_pos.z + 10
        first_lift == (v.leg_touched /\ leg_lift) /\ ~s._leg_lift
        once_rew == IF first_lift THEN _phase_bonus \div 10 ELSE 0
        lift_leg_rew == dist_rew + once_rew
        s2 == [sd EXCEPT !._leg_lift = IF first_lift THEN TRUE ELSE @]
        info == [touch_rew |-> touch_rew,
                 lift |-> leg_lift,
                 lift_leg_rew |-> lift_leg_rew,
                 lift_leg_xy_dist |-> xy_dist,
                 lift_leg_z_dist |-> z_dist,
                 lift_leg_succ |->
                     xy_dist < 30 /\ z_dist < 10 /\ s._leg_lift]
    IN  IF s._diff_rew /\ ~(IsSet(s._prev_lift_leg_z_dist)
                            /\ IsSet(s._prev_lift_leg_xy_dist))
        THEN Raise(s)
        ELSE Return(s2, lift_leg_rew + touch_rew, info, dist_rew, once_rew)

_lift_leg_reward(s) ==
    LET v == s._current_values
        leg_pos == v.leg_pos
        touch_rew == IF v.leg_touched THEN _touch_coef \div 5 ELSE 0
        xy_dist == Abs(s._lift_leg_pos.xy - leg_pos.xy)
        z_dist == Abs(s._lift_leg_pos.z - leg_pos.z)
        dist_rew ==
            IF s._diff_rew
            THEN DistRew(s, s._prev_lift_leg_z_dist, z_dist, _lift_dist_coef)
                 + DistRew(s, s._prev_lift_leg_xy_dist, xy_dist,
                           _lift_dist_coef)
            ELSE (0 - (z_dist + xy_dist)) * _lift_dist_coef
        s1 == [s EXCEPT !._prev_lift_leg_z_dist = Some(z_dist),
                        !._prev_lift_leg_xy_dist = Some(xy_dist)]
        sd == IF s._diff_rew THEN s1 ELSE s
        leg_lift == leg_pos.z > s._init_lift_leg_pos.z + 10
        first_lift == (v.leg_touched /\ leg_lift) /\ ~s._leg_lift
        once_rew == IF first_lift THEN _phase_bonus \div 10 ELSE 0
        lift_leg_rew == dist_rew + once_rew
        s2 == [sd EXCEPT !._leg_lift = IF first_lift THEN TRUE ELSE @]
        info == [touch_rew |-> touch_rew,
                 lift |-> leg_lift,
                 lift_leg_rew |-> lift_leg_rew,
                 lift_leg_xy_dist |-> xy_dist,
                 lift_leg_z_dist |-> z_dist,
                 lift_leg_succ |-> xy_dist < 30 /\ z_dist < 10]
    IN  IF s._diff_rew /\ ~(IsSet(s._prev_lift_leg_z_dist)
                            /\ IsSet(s._prev_lift_leg_xy_dist))
        THEN Raise(s)
        ELSE Return(s2, lift_leg_rew + touch_rew, info, dist_rew, once_rew)

_align_leg_reward(s) ==
    LET v == s._current_values
        leg_pos == v.leg_pos
        a == Get(s._align_leg_pos)
        move_pos_dist == Norm2(a.xy - leg_pos.xy, a.z - leg_pos.z)
        pos_rew == DistRew(s, s._prev_move_pos_dist, move_pos_dist,
                           _align_pos_dist_coef)
        ang_rew == AngRew(s, s._prev_move_ang_dist, v.move_ang_dist,
                          _align_rot_dist_coef)
        forward_ang_rew ==
            AngRew(s, s._prev_move_forward_ang_dist, v.move_forward_ang_dist,
                   _align_rot_dist_coef)
        s1 == [s EXCEPT !._prev_move_pos_dist = Some(move_pos_dist),
                        !._prev_move_ang_dist = Some(v.move_ang_dist),
                        !._prev_move_forward_ang_dist =
                            Some(v.move_forward_ang_dist)]
        info == [touch_rew |-> 0,
                 align_pos_dist |-> move_pos_dist,
                 align_pos_rew |-> pos_rew,
                 align_ang_dist |-> v.move_ang_dist,
                 align_ang_rew |-> ang_rew,
                 align_forward_ang_dist |-> v.move_forward_ang_dist,
                 align_forward_ang_rew |-> forward_ang_rew,
                 align_leg_succ |->
                     /\ move_pos_dist < _align_pos_threshold
                     /\ v.move_ang_dist > _align_rot_threshold
                     /\ v.move_forward_ang_dist > _align_rot_threshold
                     /\ v.leg_touched]
        rew == pos_rew + ang_rew + forward_ang_rew
    IN  IF ~IsSet(s._align_leg_pos) THEN Raise(s)
        ELSE IF s._diff_rew
        THEN IF ~(/\ IsSet(s._prev_move_pos_dist)
                  /\ IsSet(s._prev_move_ang_dist)
                  /\ IsSet(s._prev_move_forward_ang_dist))
             THEN Raise(s)
             ELSE Return(s1, rew, info, pos_rew, 0)
        ELSE Return(s, rew, info, pos_rew, 0)

\* _move_leg_reward succeeding on the thresholds as well
_move_leg_reward_AtThreshold(s) ==
    LET v == s._current_values
        move_pos_dist == v.move_above_pos_dist
        pos_rew == DistRew(s, s._prev_move_pos_dist, move_pos_dist,
                           _move_pos_dist_coef)
        ang_rew == AngRew(s, s._prev_move_ang_dist, v.move_ang_dist,
                          _move_rot_dist_coef)
        forward_ang_rew ==
            AngRew(s, s._prev_move_forward_ang_dist, v.move_forward_ang_dist,
                   _move_rot_dist_coef)
        s1 == [s EXCEPT !._prev_move_pos_dist = Some(move_pos_dist),
                        !._prev_move_ang_dist = Some(v.move_ang_dist),
                        !._prev_move_forward_ang_dist =
                            Some(v.move_forward_ang_dist)]
        info == [touch_rew |-> 0,
                 move_pos_dist |-> move_pos_dist,
                 move_pos_rew |-> pos_rew,
                 move_ang_dist |-> v.move_ang_dist,
                 move_ang_rew |-> ang_rew,
                 move_forward_ang_dist |-> v.move_forward_ang_dist,
                 move_forward_ang_rew |-> forward_ang_rew,
                 move_leg_succ |->
                     /\ move_pos_dist <= _move_pos_threshold
                     /\ v.move_ang_dist >= _move_rot_threshold
                     /\ v.move_forward_ang_dist >= _move_rot_threshold
                     /\ v.leg_touched]
        rew == pos_rew + ang_rew + forward_ang_rew
    IN  IF s._diff_rew
        THEN IF ~(/\ IsSet(s._prev_move_pos_dist)
                  /\ IsSet(s._prev_move_ang_dist)
                  /\ IsSet(s._prev_move_forward_ang_dist))
             THEN Raise(s)
             ELSE Return(s1, rew, info, pos_rew, 0)
        ELSE Return(s, rew, info, pos_rew, 0)

_move_leg_reward(s) ==
    LET v == s._current_values
        move_pos_dist == v.move_above_pos_dist
        pos_rew == DistRew(s, s._prev_move_pos_dist, move_pos_dist,
                           _move_pos_dist_coef)
        ang_rew == AngRew(s, s._prev_move_ang_dist, v.move_ang_dist,
                          _move_rot_dist_coef)
        forward_ang_rew ==
            AngRew(s, s._prev_move_forward_ang_dist, v.move_forward_ang_dist,
                   _move_rot_dist_coef)
        s1 == [s EXCEPT !._prev_move_pos_dist = Some(move_pos_dist),
                        !._prev_move_ang_dist = Some(v.move_ang_dist),
                        !._prev_move_forward_ang_dist =
                            Some(v.move_forward_ang_dist)]
        info == [touch_rew |-> 0,
                 move_pos_dist |-> move_pos_dist,
                 move_pos_rew |-> pos_rew,
                 move_ang_dist |-> v.move_ang_dist,
                 move_ang_rew |-> ang_rew,
                 move_forward_ang_dist |-> v.move_forward_ang_dist,
                 move_forward_ang_rew |-> forward_ang_rew,
                 move_leg_succ |->
                     /\ move_pos_dist < _move_pos_threshold
                     /\ v.move_ang_dist > _move_rot_threshold
                     /\ v.move_forward_ang_dist > _move_rot_threshold
                     /\ v.leg_touched]
        rew == pos_rew + ang_rew + forward_ang_rew
    IN  IF s._diff_rew
        THEN IF ~(/\ IsSet(s._prev_move_pos_dist)
                  /\ IsSet(s._prev_move_ang_dist)
                  /\ IsSet(s._prev_move_forward_ang_dist))
             THEN Raise(s)
             ELSE Return(s1, rew, info, pos_rew, 0)
        ELSE Return(s, rew, info, pos_rew, 0)

\* the dense terms of _move_leg_fine_reward and the info entries they make
FineTerms(s, ac) ==
    LET v == s._current_values
        d == s._diff_rew
        pos_rew ==
            IF d THEN (Exp25(v.move_pos_dist)
                           - Exp25(Get(s._prev_move_pos_dist)))
                          * _move_fine_pos_dist_coef * 10
            ELSE (0 - v.move_pos_dist) * _move_fine_pos_dist_coef
        ang_rew ==
            IF d THEN (Exp3(v.move_ang_dist)
                           - Exp3(Get(s._prev_move_ang_dist)))
                          * _move_fine_rot_dist_coef * 10
            ELSE (v.move_ang_dist - 1000) * _move_fine_rot_dist_coef
        forward_ang_rew ==
            IF d THEN (Exp3(v.move_forward_ang_dist)
                           - Exp3(Get(s._prev_move_forward_ang_dist)))
                          * _move_fine_rot_dist_coef * 10
            ELSE (v.move_forward_ang_dist - 1000) * _move_fine_rot_dist_coef
        proj_t_rew ==
            IF d THEN (Exp3(v.proj_table) - Exp3(Get(s._prev_proj_t)))
                          * _move_fine_rot_dist_coef * 5
            ELSE ((v.proj_table - 1000) * _move_fine_rot_dist_coef) \div 10
        proj_l_rew ==
            IF d THEN (Exp3(v.proj_leg) - Exp3(Get(s._prev_proj_l)))
                          * _move_fine_rot_dist_coef * 5
            ELSE ((v.proj_leg - 1000) * _move_fine_rot_dist_coef) \div 10
    IN  [rew |-> pos_rew + ang_rew + forward_ang_rew + proj_t_rew
                     + proj_l_rew,
         connect_rew |-> (ac.connect + 1000) * _aligned_bonus_coef,
         info |-> [connect_succ |-> FALSE,
                   touch_rew |-> 0,
                   move_fine_pos_dist |-> v.move_pos_dist,
                   move_fine_pos_rew |-> pos_rew,
                   move_fine_ang_dist |-> v.move_ang_dist,
                   move_fine_ang_rew |-> ang_rew,
                   move_fine_forward_ang_dist |-> v.move_forward_ang_dist,
                   move_fine_forward_ang_rew |-> forward_ang_rew,
                   proj_t_rew |-> proj_t_rew,
                   proj_t |-> v.proj_table,
                   proj_l_rew |-> proj_l_rew,
                   proj_l |-> v.proj_leg]]

\* a variant that counts consecutive aligned frames: a frame in which the
\* alignment is lost restarts the count
_move_leg_fine_reward_Consecutive(s, e, ac) ==
    LET v == s._current_values
        s1 == [s EXCEPT !._prev_move_pos_dist = Some(v.move_pos_dist),
                        !._prev_move_ang_dist = Some(v.move_ang_dist),
                        !._prev_move_forward_ang_dist =
                            Some(v.move_forward_ang_dist),
                        !._prev_proj_t = Some(v.proj_table),
                        !._prev_proj_l = Some(v.proj_leg)]
        sd == IF s._diff_rew THEN s1 ELSE s
        s2 == [sd EXCEPT !._leg_fine_aligned =
                             IF e.is_aligned THEN @ + 1 ELSE 0]
        f == FineTerms(s, ac)
        info == Merge(f.info,
                      IF e.is_aligned
                      THEN [move_leg_fine_succ |-> TRUE,
                            connect_rew |-> f.connect_rew]
                      ELSE [move_leg_fine_succ |-> FALSE])
        rew == f.rew + IF e.is_aligned THEN f.connect_rew ELSE 0
    IN  IF e.connected THEN Return(s, 0, [connect_succ |-> TRUE], 0, 0)
        ELSE IF s._diff_rew /\ ~(/\ IsSet(s._prev_move_pos_dist)
                                 /\ IsSet(s._prev_move_ang_dist)
                                 /\ IsSet(s._prev_move_forward_ang_dist)
                                 /\ IsSet(s._prev_proj_t)
                                 /\ IsSet(s._prev_proj_l))
        THEN Raise(s)
        ELSE Return(s2, rew, info, 0, 0)

\* _move_leg_fine_reward paying the dense terms on a connected step too
_move_leg_fine_reward_DenseOnConnect(s, e, ac) ==
    LET v == s._current_values
        s1 == [s EXCEPT !._prev_move_pos_dist = Some(v.move_pos_dist),
                        !._prev_move_ang_dist = Some(v.move_ang_dist),
                        !._prev_move_forward_ang_dist =
                            Some(v.move_forward_ang_dist),
                        !._prev_proj_t = Some(v.proj_table),
                        !._prev_proj_l = Some(v.proj_leg)]
        sd == IF s._diff_rew THEN s1 ELSE s
        s2 == [sd EXCEPT !._leg_fine_aligned =
                             IF e.is_aligned THEN @ + 1 ELSE @]
        f == FineTerms(s, ac)
        info == Merge(Merge(f.info, [connect_succ |-> e.connected]),
                      IF e.is_aligned
                      THEN [move_leg_fine_succ |-> TRUE,
                            connect_rew |-> f.connect_rew]
                      ELSE [move_leg_fine_succ |-> FALSE])
        rew == f.rew + IF e.is_aligned THEN f.connect_rew ELSE 0
    IN  IF s._diff_rew /\ ~(/\ IsSet(s._prev_move_pos_dist)
                            /\ IsSet(s._prev_move_ang_dist)
                            /\ IsSet(s._prev_move_forward_ang_dist)
                            /\ IsSet(s._prev_proj_t)
                            /\ IsSet(s._prev_proj_l))
        THEN Raise(s)
        ELSE Return(s2, rew, info, 0, 0)

_move_leg_fine_reward(s, e, ac) ==
    LET v == s._current_values
        s1 == [s EXCEPT !._prev_move_pos_dist = Some(v.move_pos_dist),
                        !._prev_move_ang_dist = Some(v.move_ang_dist),
                        !._prev_move_forward_ang_dist =
                            Some(v.move_forward_ang_dist),
                        !._prev_proj_t = Some(v.proj_table),
                        !._prev_proj_l = Some(v.proj_leg)]
        sd == IF s._diff_rew THEN s1 ELSE s
        s2 == [sd EXCEPT !._leg_fine_aligned =
                             IF e.is_aligned THEN @ + 1 ELSE @]
        f == FineTerms(s, ac)
        info == Merge(f.info,
                      IF e.is_aligned
                      THEN [move_leg_fine_succ |-> TRUE,
                            connect_rew |-> f.connect_rew]
                      ELSE [move_leg_fine_succ |-> FALSE])
        rew == f.rew + IF e.is_aligned THEN f.connect_rew ELSE 0
    IN  IF e.connected THEN Return(s, 0, [connect_succ |-> TRUE], 0, 0)
        ELSE IF s._diff_rew /\ ~(/\ IsSet(s._prev_move_pos_dist)
                                 /\ IsSet(s._prev_move_ang_dist)
                                 /\ IsSet(s._prev_move_forward_ang_dist)
                                 /\ IsSet(s._prev_proj_t)
                                 /\ IsSet(s._prev_proj_l))
        THEN Raise(s)
        ELSE Return(s2, rew, info, 0, 0)

\* _stable_grip_reward imposed in every phase
_stable_grip_reward_Always(s, b) ==
    LET eef_up_grasp_dist == b.eef_up_grasp_dist
        eef_up_grasp_rew ==
            s._eef_up_rot_dist_coef * (eef_up_grasp_dist - 1000)
        eef_forward_grasp_dist == b.eef_forward_grasp_dist
        eef_forward_grasp_rew ==
            (Abs(eef_forward_grasp_dist) - 1000) * s._eef_rot_dist_coef
        succ == [stable_grip_succ |->
                    /\ eef_up_grasp_dist > 1000 - _rot_threshold
                    /\ Abs(eef_forward_grasp_dist) > 1000 - _rot_threshold]
    IN  [rew |-> eef_up_grasp_rew + eef_forward_grasp_rew,
         info |-> IF s._phase_i < 3
                  THEN Merge(succ,
                        [eef_up_grasp_dist |-> eef_up_grasp_dist,
                         eef_up_grasp_rew |-> eef_up_grasp_rew,
                         eef_forward_grasp_dist |-> eef_forward_grasp_dist,
                         eef_forward_grasp_rew |-> eef_forward_grasp_rew])
                  ELSE succ]

\* the wrist alignment reward, imposed until lifting; b holds the cosine
\* similarities the backend answers
_stable_grip_reward(s, b) ==
    LET eef_up_grasp_dist == b.eef_up_grasp_dist
        eef_up_grasp_rew ==
            s._eef_up_rot_dist_coef * (eef_up_grasp_dist - 1000)
        eef_forward_grasp_dist == b.eef_forward_grasp_dist
        eef_forward_grasp_rew ==
            (Abs(eef_forward_grasp_dist) - 1000) * s._eef_rot_dist_coef
        succ == [stable_grip_succ |->
                    /\ eef_up_grasp_dist > 1000 - _rot_threshold
                    /\ Abs(eef_forward_grasp_dist) > 1000 - _rot_threshold]
    IN  IF s._phase_i < 3
        THEN [rew |-> eef_up_grasp_rew + eef_forward_grasp_rew,
              info |-> Merge(succ,
                        [eef_up_grasp_dist |-> eef_up_grasp_dist,
                         eef_up_grasp_rew |-> eef_up_grasp_rew,
                         eef_forward_grasp_dist |-> eef_forward_grasp_dist,
                         eef_forward_grasp_rew |-> eef_forward_grasp_rew])]
        ELSE [rew |-> 0, info |-> succ]

\* the result of a penalty function; its assert rew <= 0 raises when it
\* fails
Penalty(rew, info) ==
    [rew |-> rew, info |-> info, raised |-> ~(rew <= 0),
     exception |-> IF rew <= 0 THEN NoException ELSE "AssertionError"]

\* _gripper_penalty charging every phase, the gripper-open phases included
_gripper_penalty_AllPhases(s, ac) ==
    LET rew == (ac.grip - 1000) * s._gripper_penalty_coef
    IN  Penalty(rew, [gripper_penalty |-> rew, gripper_action |-> ac.grip])

\* _gripper_penalty with the sign of the closing term reversed
_gripper_penalty_Reversed(s, ac) ==
    LET grip_open == PhaseName(s._phase_i) \in _grip_open_phases
        rew == IF ~grip_open
               THEN (IF grip_open THEN (0 - 1000) - ac.grip
                     ELSE 1000 - ac.grip) * s._gripper_penalty_coef
               ELSE 0
    IN  Penalty(rew, [gripper_penalty |-> rew, gripper_action |-> ac.grip])

_gripper_penalty(s, ac) ==
    LET grip_open == PhaseName(s._phase_i) \in _grip_open_phases
        rew == IF ~grip_open
               THEN (IF grip_open THEN (0 - 1000) - ac.grip
                     ELSE ac.grip - 1000) * s._gripper_penalty_coef
               ELSE 0
    IN  Penalty(rew, [gripper_penalty |-> rew, gripper_action |-> ac.grip])

_ctrl_penalty(s, action) ==
    LET rew == Norm2(action.arm[1], action.arm[2])
                   * (0 - s._ctrl_penalty_coef)
    IN  Penalty(rew, [ctrl_penalty |-> rew])

_move_other_part_penalty(s) ==
    LET table_displacement == s._current_values.table_displacement
        rew == (0 - s._move_other_part_penalty_coef) * table_displacement
    IN  [rew |-> rew,
         info |-> [move_other_part_penalty |-> rew,
                   table_displacement |-> table_displacement]]

-----------------------------------------------------------------------------
(* _compute_reward: the three skip checks                                  *)

\* SkipToLiftLeg without the guard on the phase
SkipToLiftLeg_AnyPhase(s, sg_info) ==
    IF s._current_values.leg_touched /\ sg_info.stable_grip_succ
    THEN [s EXCEPT !._phase_i = 3]
    ELSE s

\* SkipToLiftLeg landing one phase short, in grasp_leg
SkipToLiftLeg_ToGrasp(s, sg_info) ==
    IF s._current_values.leg_touched /\ sg_info.stable_grip_succ
       /\ s._phase_i < 2
    THEN [s EXCEPT !._phase_i = 2]
    ELSE s

\* detect early picking
SkipToLiftLeg(s, sg_info) ==
    IF s._current_values.leg_touched /\ sg_info.stable_grip_succ
       /\ s._phase_i < 2
    THEN [s EXCEPT !._phase_i = 3]
    ELSE s

\* SkipToMoveLegFine leaving the leg projection baseline as it was
SkipToMoveLegFine_NoProj(s) ==
    LET v == s._current_values
    IN  IF /\ s._phase_i \in {3, 4}
           /\ v.move_pos_dist < _move_pos_threshold
           /\ v.move_ang_dist > _move_rot_threshold
           /\ v.move_forward_ang_dist > _move_rot_threshold
        THEN [s EXCEPT !._phase_i = 6,
                       !._prev_move_pos_dist = Some(v.move_pos_dist),
                       !._prev_move_ang_dist = Some(v.move_ang_dist),
                       !._prev_move_forward_ang_dist =
                           Some(v.move_forward_ang_dist),
                       !._prev_proj_t = Some(v.proj_table)]
        ELSE s

\* SkipToMoveLegFine clearing the one-shot flags and the alignment counter,
\* as _update_reward_variables does at a subtask start
SkipToMoveLegFine_ResetsFlags(s) ==
    LET v == s._current_values
    IN  IF /\ s._phase_i \in {3, 4}
           /\ v.move_pos_dist < _move_pos_threshold
           /\ v.move_ang_dist > _move_rot_threshold
           /\ v.move_forward_ang_dist > _move_rot_threshold
        THEN [s EXCEPT !._phase_i = 6,
                       !._leg_touched = FALSE,
                       !._leg_lift = FALSE,
                       !._leg_fine_aligned = 0,
                       !._prev_move_pos_dist = Some(v.move_pos_dist),
                       !._prev_move_ang_dist = Some(v.move_ang_dist),
                       !._prev_move_forward_ang_dist =
                           Some(v.move_forward_ang_dist),
                       !._prev_proj_t = Some(v.proj_table),
                       !._prev_proj_l = Some(v.proj_leg)]
        ELSE s

\* detect early fine alignment without lifting or coarse alignment
SkipToMoveLegFine(s) ==
    LET v == s._current_values
    IN  IF /\ s._phase_i \in {3, 4}
           /\ v.move_pos_dist < _move_pos_threshold
           /\ v.move_ang_dist > _move_rot_threshold
           /\ v.move_forward_ang_dist > _move_rot_threshold
        THEN [s EXCEPT !._phase_i = 6,
                       !._prev_move_pos_dist = Some(v.move_pos_dist),
                       !._prev_move_ang_dist = Some(v.move_ang_dist),
                       !._prev_move_forward_ang_dist =
                           Some(v.move_forward_ang_dist),
                       !._prev_proj_t = Some(v.proj_table),
                       !._prev_proj_l = Some(v.proj_leg)]
        ELSE s

\* SkipToMoveLeg firing from align_leg as well
SkipToMoveLeg_FromAlign(s) ==
    LET v == s._current_values
    IN  IF /\ s._phase_i \in {3, 4}
           /\ v.move_ang_dist > _align_rot_threshold
           /\ v.move_forward_ang_dist > _align_rot_threshold
        THEN [s EXCEPT !._phase_i = 5,
                       !._prev_move_pos_dist = Some(v.move_above_pos_dist),
                       !._prev_move_ang_dist = Some(v.move_ang_dist),
                       !._prev_move_forward_ang_dist =
                           Some(v.move_forward_ang_dist)]
        ELSE s

\* detect early alignment without lifting
SkipToMoveLeg(s) ==
    LET v == s._current_values
    IN  IF /\ s._phase_i = 3
           /\ v.move_ang_dist > _align_rot_threshold
           /\ v.move_forward_ang_dist > _align_rot_threshold
        THEN [s EXCEPT !._phase_i = 5,
                       !._prev_move_pos_dist = Some(v.move_above_pos_dist),
                       !._prev_move_ang_dist = Some(v.move_ang_dist),
                       !._prev_move_forward_ang_dist =
                           Some(v.move_forward_ang_dist)]
        ELSE s

\* the three checks with (c) evaluated before (b)
AfterSkips_CoarseFirst(s, b) ==
    SkipToMoveLegFine(SkipToMoveLeg(
        SkipToLiftLeg(_collect_values([s EXCEPT !._success = FALSE], b),
                      _stable_grip_reward(s, b).info)))

\* the object after _collect_values and the three checks, in source order
AfterSkips(s, b) ==
    SkipToMoveLeg(SkipToMoveLegFine(
        SkipToLiftLeg(_collect_values([s EXCEPT !._success = FALSE], b),
                      _stable_grip_reward(s, b).info)))

-----------------------------------------------------------------------------
(* _compute_reward: the dispatch on the phase name.  Each branch returns   *)
(* the object, done, the phase bonus it adds, the phase info, and raised.  *)

Raised(r) ==
    [self |-> r.self, done |-> FALSE, phase_bonus |-> 0, phase_reward |-> 0,
     phase_info |-> << >>, dist_rew |-> 0, once_rew |-> 0,
     raised |-> TRUE, exception |-> r.exception]

\* r is what the phase reward function returned
Branch(s, done, phase_bonus, r) ==
    [self |-> s, done |-> done, phase_bonus |-> phase_bonus,
     phase_reward |-> r.rew, phase_info |-> r.info,
     dist_rew |-> r.dist_rew, once_rew |-> r.once_rew,
     raised |-> FALSE, exception |-> NoException]

DispatchMoveEefAboveLeg(s, sg_info, e) ==
    LET r == _move_eef_above_leg_reward(s, e)
        d == EefLegDist(e)
    IN  IF r.raised THEN Raised(r)
        ELSE IF r.info.move_eef_above_leg_succ /\ sg_info.stable_grip_succ
        THEN Branch([r.self EXCEPT
                        !._phase_i = @ + 1,
                        !._prev_eef_leg_dist = Some(Min(d.xy + d.z, 300))],
                    FALSE, _phase_bonus, r)
        ELSE Branch(r.self, FALSE, 0, r)

\* the lower_eef_to_leg branch without the stable-grip gate
DispatchLowerEefToLeg_Ungated(s, sg_info, e) ==
    LET r == _lower_eef_to_leg_reward(s, e)
    IN  IF r.raised THEN Raised(r)
        ELSE IF r.info.lower_eef_to_leg_succ
        THEN Branch([r.self EXCEPT !._phase_i = @ + 1],
                    FALSE, _phase_bonus, r)
        ELSE Branch(r.self, FALSE, 0, r)

DispatchLowerEefToLeg(s, sg_info, e) ==
    LET r == _lower_eef_to_leg_reward(s, e)
    IN  IF r.raised THEN Raised(r)
        ELSE IF r.info.lower_eef_to_leg_succ /\ sg_info.stable_grip_succ
        THEN Branch([r.self EXCEPT !._phase_i = @ + 1],
                    FALSE, _phase_bonus, r)
        ELSE Branch(r.self, FALSE, 0, r)

\* the grasp_leg branch ending the episode when the part is not touched, as
\* the carry phases do
DispatchGraspLeg_EndsWithoutContact(s, sg_info, e, ac) ==
    LET r == _grasp_leg_reward(s, e, ac)
    IN  IF r.raised THEN Raised(r)
        ELSE IF ~s._current_values.leg_touched
        THEN Branch(r.self, TRUE, (0 - _phase_bonus) \div 2, r)
        ELSE IF r.info.grasp_leg_succ /\ sg_info.stable_grip_succ
        THEN Branch([r.self EXCEPT !._phase_i = @ + 1],
                    FALSE, _phase_bonus, r)
        ELSE Branch(r.self, FALSE, 0, r)

\* the grasp_leg branch without the stable-grip gate
DispatchGraspLeg_Ungated(s, sg_info, e, ac) ==
    LET r == _grasp_leg_reward(s, e, ac)
    IN  IF r.raised THEN Raised(r)
        ELSE IF r.info.grasp_leg_succ
        THEN Branch([r.self EXCEPT !._phase_i = @ + 1],
                    FALSE, _phase_bonus, r)
        ELSE Branch(r.self, FALSE, 0, r)

DispatchGraspLeg(s, sg_info, e, ac) ==
    LET r == _grasp_leg_reward(s, e, ac)
    IN  IF r.raised THEN Raised(r)
        ELSE IF r.info.grasp_leg_succ /\ sg_info.stable_grip_succ
        THEN Branch([r.self EXCEPT !._phase_i = @ + 1],
                    FALSE, _phase_bonus, r)
        ELSE Branch(r.self, FALSE, 0, r)

\* the lift_leg branch sending a dropped part back to the first phase
DispatchLiftLeg_RestartsOnDrop(s) ==
    LET r == _lift_leg_reward(s)
        v == s._current_values
    IN  IF r.raised THEN Raised(r)
        ELSE IF ~v.leg_touched
        THEN Branch([r.self EXCEPT !._phase_i = 0], TRUE,
                    (0 - _phase_bonus) \div 2, r)
        ELSE IF v.table_displacement > 100
        THEN Branch(r.self, TRUE, (0 - _phase_bonus) \div 2, r)
        ELSE IF r.info.lift_leg_succ
        THEN Branch([r.self EXCEPT
                        !._phase_i = @ + 1,
                        !._align_leg_pos = Some(v.leg_pos),
                        !._prev_move_pos_dist = Some(0),
                        !._prev_move_ang_dist = Some(v.move_ang_dist),
                        !._prev_move_forward_ang_dist =
                            Some(v.move_forward_ang_dist)],
                    FALSE, _phase_bonus, r)
        ELSE Branch(r.self, FALSE, 0, r)

DispatchLiftLeg(s) ==
    LET r == _lift_leg_reward(s)
        v == s._current_values
    IN  IF r.raised THEN Raised(r)
        ELSE IF ~v.leg_touched
        THEN Branch(r.self, TRUE, (0 - _phase_bonus) \div 2, r)
        ELSE IF v.table_displacement > 100
        THEN Branch(r.self, TRUE, (0 - _phase_bonus) \div 2, r)
        ELSE IF r.info.lift_leg_succ
        THEN Branch([r.self EXCEPT
                        !._phase_i = @ + 1,
                        !._align_leg_pos = Some(v.leg_pos),
                        !._prev_move_pos_dist = Some(0),
                        !._prev_move_ang_dist = Some(v.move_ang_dist),
                        !._prev_move_forward_ang_dist =
                            Some(v.move_forward_ang_dist)],
                    FALSE, _phase_bonus, r)
        ELSE Branch(r.self, FALSE, 0, r)

\* the align_leg branch without the table displacement check
DispatchAlignLeg_NoDisplacement(s) ==
    LET r == _align_leg_reward(s)
        v == s._current_values
    IN  IF r.raised THEN Raised(r)
        ELSE IF ~v.leg_touched
        THEN Branch(r.self, TRUE, (0 - _phase_bonus) \div 2, r)
        ELSE IF r.info.align_leg_succ
        THEN Branch([r.self EXCEPT
                        !._phase_i = @ + 1,
                        !._prev_move_pos_dist = Some(v.move_above_pos_dist)],
                    FALSE, _phase_bonus, r)
        ELSE Branch(r.self, FALSE, 0, r)

DispatchAlignLeg(s) ==
    LET r == _align_leg_reward(s)
        v == s._current_values
    IN  IF r.raised THEN Raised(r)
        ELSE IF ~v.leg_touched
        THEN Branch(r.self, TRUE, (0 - _phase_bonus) \div 2, r)
        ELSE IF v.table_displacement > 100
        THEN Branch(r.self, TRUE, (0 - _phase_bonus) \div 2, r)
        ELSE IF r.info.align_leg_succ
        THEN Branch([r.self EXCEPT
                        !._phase_i = @ + 1,
                        !._prev_move_pos_dist = Some(v.move_above_pos_dist)],
                    FALSE, _phase_bonus, r)
        ELSE Branch(r.self, FALSE, 0, r)

\* the move_leg branch paying the bonus of the other forward transitions
DispatchMoveLeg_SingleBonus(s) ==
    LET r == _move_leg_reward(s)
        v == s._current_values
    IN  IF r.raised THEN Raised(r)
        ELSE IF ~v.leg_touched
        THEN Branch(r.self, TRUE, (0 - _phase_bonus) \div 2, r)
        ELSE IF v.table_displacement > 100
        THEN Branch(r.self, TRUE, (0 - _phase_bonus) \div 2, r)
        ELSE IF r.info.move_leg_succ
        THEN Branch([r.self EXCEPT
                        !._phase_i = @ + 1,
                        !._prev_move_pos_dist = Some(v.move_pos_dist),
                        !._prev_proj_t = Some(v.proj_table),
                        !._prev_proj_l = Some(v.proj_leg)],
                    FALSE, _phase_bonus, r)
        ELSE Branch(r.self, FALSE, 0, r)

DispatchMoveLeg(s) ==
    LET r == _move_leg_reward(s)
        v == s._current_values
    IN  IF r.raised THEN Raised(r)
        ELSE IF ~v.leg_touched
        THEN Branch(r.self, TRUE, (0 - _phase_bonus) \div 2, r)
        ELSE IF v.table_displacement > 100
        THEN Branch(r.self, TRUE, (0 - _phase_bonus) \div 2, r)
        ELSE IF r.info.move_leg_succ
        THEN Branch([r.self EXCEPT
                        !._phase_i = @ + 1,
                        !._prev_move_pos_dist = Some(v.move_pos_dist),
                        !._prev_proj_t = Some(v.proj_table),
                        !._prev_proj_l = Some(v.proj_leg)],
                    FALSE, _phase_bonus * 5, r)
        ELSE Branch(r.self, FALSE, 0, r)

\* the move_leg_fine branch advancing the phase on a connection, as the
\* other branches do, where the source sets it to 0
DispatchMoveLegFine_Advances(s, e, n, ac) ==
    LET r == _move_leg_fine_reward(s, e, ac)
        v == s._current_values
        nx == _set_next_subtask([r.self EXCEPT !._phase_i = @ + 1], n)
    IN  IF r.raised THEN Raised(r)
        ELSE IF v.table_displacement > 100
        THEN Branch(r.self, TRUE, (0 - _phase_bonus) \div 2, r)
        ELSE IF r.info.connect_succ
        THEN Branch([nx.self EXCEPT !._success = nx.result], nx.result,
                    _phase_bonus * 5
                        - r.self._leg_fine_aligned * _aligned_bonus_coef,
                    r)
        ELSE IF ~v.leg_touched
        THEN Branch(r.self, TRUE, (0 - _phase_bonus) * 2, r)
        ELSE Branch(r.self, FALSE, 0, r)

\* a variant that charges a lost contact in move_leg_fine the penalty of the
\* carry phases
DispatchMoveLegFine_HalfPenalty(s, e, n, ac) ==
    LET r == _move_leg_fine_reward(s, e, ac)
        v == s._current_values
        nx == _set_next_subtask([r.self EXCEPT !._phase_i = 0], n)
    IN  IF r.raised THEN Raised(r)
        ELSE IF v.table_displacement > 100
        THEN Branch(r.self, TRUE, (0 - _phase_bonus) \div 2, r)
        ELSE IF r.info.connect_succ
        THEN Branch([nx.self EXCEPT !._success = nx.result], nx.result,
                    _phase_bonus * 5
                        - r.self._leg_fine_aligned * _aligned_bonus_coef,
                    r)
        ELSE IF ~v.leg_touched
        THEN Branch(r.self, TRUE, (0 - _phase_bonus) \div 2, r)
        ELSE Branch(r.self, FALSE, 0, r)

\* a variant that reports success on every connection, the last or not
DispatchMoveLegFine_AlwaysSuccess(s, e, n, ac) ==
    LET r == _move_leg_fine_reward(s, e, ac)
        v == s._current_values
        nx == _set_next_subtask([r.self EXCEPT !._phase_i = 0], n)
    IN  IF r.raised THEN Raised(r)
        ELSE IF v.table_displacement > 100
        THEN Branch(r.self, TRUE, (0 - _phase_bonus) \div 2, r)
        ELSE IF r.info.connect_succ
        THEN Branch([nx.self EXCEPT !._success = TRUE], nx.result,
                    _phase_bonus * 5
                        - r.self._leg_fine_aligned * _aligned_bonus_coef,
                    r)
        ELSE IF ~v.leg_touched
        THEN Branch(r.self, TRUE, (0 - _phase_bonus) * 2, r)
        ELSE Branch(r.self, FALSE, 0, r)

\* n holds the queries _update_reward_variables makes for the next subtask
\* the move_leg_fine branch testing the contact before the connection
DispatchMoveLegFine_DropFirst(s, e, n, ac) ==
    LET r == _move_leg_fine_reward(s, e, ac)
        v == s._current_values
        nx == _set_next_subtask([r.self EXCEPT !._phase_i = 0], n)
    IN  IF r.raised THEN Raised(r)
        ELSE IF v.table_displacement > 100
        THEN Branch(r.self, TRUE, (0 - _phase_bonus) \div 2, r)
        ELSE IF ~v.leg_touched
        THEN Branch(r.self, TRUE, (0 - _phase_bonus) * 2, r)
        ELSE IF r.info.connect_succ
        THEN Branch([nx.self EXCEPT !._success = nx.result], nx.result,
                    _phase_bonus * 5
                        - r.self._leg_fine_aligned * _aligned_bonus_coef,
                    r)
        ELSE Branch(r.self, FALSE, 0, r)

DispatchMoveLegFine(s, e, n, ac) ==
    LET r == _move_leg_fine_reward(s, e, ac)
        v == s._current_values
        nx == _set_next_subtask([r.self EXCEPT !._phase_i = 0], n)
    IN  IF r.raised THEN Raised(r)
        ELSE IF v.table_displacement > 100
        THEN Branch(r.self, TRUE, (0 - _phase_bonus) \div 2, r)
        ELSE IF r.info.connect_succ
        THEN Branch([nx.self EXCEPT !._success = nx.result], nx.result,
                    _phase_bonus * 5
                        - r.self._leg_fine_aligned * _aligned_bonus_coef,
                    r)
        ELSE IF ~v.leg_touched
        THEN Branch(r.self, TRUE, (0 - _phase_bonus) * 2, r)
        ELSE Branch(r.self, FALSE, 0, r)

\* the dispatch without a branch for move_leg_fine: the phase falls through
\* to the else branch
Dispatch_NoFineBranch(s, sg_info, e, n, ac) ==
    LET phase == PhaseName(s._phase_i)
    IN  CASE phase = "move_eef_above_leg" -> DispatchMoveEefAboveLeg(s, sg_info, e)
          [] phase = "lower_eef_to_leg" -> DispatchLowerEefToLeg(s, sg_info, e)
          [] phase = "grasp_leg" -> DispatchGraspLeg(s, sg_info, e, ac)
          [] phase = "lift_leg" -> DispatchLiftLeg(s)
          [] phase = "align_leg" -> DispatchAlignLeg(s)
          [] phase = "move_leg" -> DispatchMoveLeg(s)
          [] OTHER -> Branch(s, TRUE, 0, Return(s, 0, << >>, 0, 0))

Dispatch(s, sg_info, e, n, ac) ==
    LET phase == PhaseName(s._phase_i)
    IN  CASE phase = "move_eef_above_leg" -> DispatchMoveEefAboveLeg(s, sg_info, e)
          [] phase = "lower_eef_to_leg" -> DispatchLowerEefToLeg(s, sg_info, e)
          [] phase = "grasp_leg" -> DispatchGraspLeg(s, sg_info, e, ac)
          [] phase = "lift_leg" -> DispatchLiftLeg(s)
          [] phase = "align_leg" -> DispatchAlignLeg(s)
          [] phase = "move_leg" -> DispatchMoveLeg(s)
          [] phase = "move_leg_fine" -> DispatchMoveLegFine(s, e, n, ac)
          [] OTHER -> Branch(s, TRUE, 0, Return(s, 0, << >>, 0, 0))

\* an exception leaves _compute_reward: nothing is returned
Raises(s, exc) ==
    [self |-> s, reward |-> << >>, done |-> FALSE, info |-> << >>,
     dist_rew |-> 0, once_rew |-> 0, raised |-> TRUE, exception |-> exc]

\* the final phase logged on a step that ends the episode only, not on the
\* last step the horizon allows
LogPhase_OnlyDone(s, info, done, last) ==
    IF done
    THEN Merge(info,
               [phase |-> s._phase_i + Len(_phases) * s._subtask_step])
    ELSE info

\* log phase if last frame: last tells whether _episode_length, the step
\* count the base class keeps, equals max_episode_steps - 1
LogPhase(s, info, done, last) ==
    IF last \/ done
    THEN Merge(info,
               [phase |-> s._phase_i + Len(_phases) * s._subtask_step])
    ELSE info

\* The reward is kept as its summands (reward += ctrl_penalty + ... ).
_compute_reward(s, b, e, n, ac, last) ==
    LET s1 == _collect_values([s EXCEPT !._success = FALSE], b)
        ctrl == _ctrl_penalty(s1, ac)
        sg == _stable_grip_reward(s1, b)
        move == _move_other_part_penalty(s1)
        s3 == AfterSkips(s, b)
        v == s3._current_values
        info0 == [phase_i |-> s3._phase_i + Len(_phases) * s3._subtask_step,
                  subtask |-> s3._subtask_step,
                  touch |-> v.leg_touched]
        grip == _gripper_penalty(s3, ac)
        Result(out) ==
            IF ctrl.raised THEN Raises(s1, ctrl.exception)
            ELSE IF grip.raised THEN Raises(s3, grip.exception)
            ELSE IF out.raised THEN Raises(out.self, out.exception)
            ELSE [self |-> out.self,
                  reward |-> [ctrl_penalty |-> ctrl.rew,
                              phase_reward |-> out.phase_reward,
                              stable_grip_rew |-> sg.rew,
                              grip_penalty |-> grip.rew,
                              phase_bonus |-> out.phase_bonus,
                              move_other_part_penalty |-> move.rew],
                  done |-> out.done,
                  info |-> LogPhase(out.self,
                               Merge(Merge(Merge(Merge(Merge(
                                   Merge(info0,
                                         [phase_bonus |-> out.phase_bonus]),
                                   ctrl.info), out.phase_info), sg.info),
                                   grip.info), move.info),
                               out.done, last),
                  dist_rew |-> out.dist_rew,
                  once_rew |-> out.once_rew, raised |-> FALSE,
                  exception |-> NoException]
    IN  Result(Dispatch(s3, sg.info, e, n, ac))

-----------------------------------------------------------------------------
(* The environment object and the calls its driver makes.                  *)

\* longest run of fully aligned frames the model follows within a subtask
MaxFineAligned == 2

ConnectActionVals == {1000}
Actions ==
    [arm : {<<0, 0>>}, grip : GripActionVals, connect : ConnectActionVals]

NoReturn == [reward |-> << >>, done |-> FALSE, info |-> << >>]

\* the queries a phase reward function makes beyond the collected values
NoPhaseReads ==
    [eef_xy |-> NotRead, eef_z |-> NotRead, grasp_z |-> NotRead,
     connected |-> FALSE, is_aligned |-> FALSE]

PhaseReads(s) ==
    IF s._phase_i \in {0, 1, 2}
    THEN {[NoPhaseReads EXCEPT !.eef_xy = x, !.eef_z = z, !.grasp_z = g] :
              x \in EefXYVals, z \in EefZVals, g \in GraspZVals}
    ELSE IF s._phase_i = 6
    THEN {[NoPhaseReads EXCEPT !.connected = TRUE]}
         \cup {[NoPhaseReads EXCEPT !.is_aligned = a] :
                  a \in IF s._leg_fine_aligned < MaxFineAligned
                        THEN BOOLEAN ELSE {FALSE}}
    ELSE {NoPhaseReads}

\* _set_next_subtask queries the next parts only when it re-initialises,
\* that is when it returns False
NextSubtaskReads(s, e, starts) ==
    IF /\ s._phase_i = 6
       /\ s._current_values.table_displacement <= 100
       /\ e.connected
       /\ ~_set_next_subtask(s, CHOOSE p \in StartReads : TRUE).result
    THEN starts
    ELSE {NoStartReads}

NoValues ==
    [left |-> FALSE, right |-> FALSE, leg_touched |-> FALSE,
     leg_pos |-> [xy |-> 0, z |-> 0], lift |-> FALSE,
     move_pos_dist |-> 0, move_above_pos_dist |-> 0,
     move_ang_dist |-> 0, move_forward_ang_dist |-> 0,
     proj_table |-> 0, proj_leg |-> 0, table_displacement |-> 0]

\* the object __init__ leaves: the reward variables are assigned by the
\* first _reset before anything reads them; the baselines are not
Constructed(diff_rew, preassembled) ==
    [_diff_rew |-> diff_rew,
     _ctrl_penalty_coef |-> _ctrl_penalty_coef,
     _eef_rot_dist_coef |-> _eef_rot_dist_coef,
     _eef_up_rot_dist_coef |-> _eef_up_rot_dist_coef,
     _gripper_penalty_coef |-> _gripper_penalty_coef,
     _move_other_part_penalty_coef |-> _move_other_part_penalty_coef,
     _preassembled |-> preassembled,
     _success |-> FALSE,
     _phase_i |-> 0,
     _subtask_step |-> 0,
     _leg |-> << >>, _table |-> << >>,
     _leg_site |-> << >>, _table_site |-> << >>,
     _leg_allowed_angles |-> << >>,
     _leg_touched |-> FALSE,
     _leg_lift |-> FALSE,
     _leg_fine_aligned |-> 0,
     _init_table_site_pos |-> 0,
     _init_lift_leg_pos |-> [xy |-> 0, z |-> 0],
     _lift_leg_pos |-> [xy |-> 0, z |-> 0],
     _current_values |-> NoValues,
     _align_leg_pos |-> Unset,
     _prev_eef_above_leg_dist |-> Unset,
     _prev_eef_leg_dist |-> Unset,
     _prev_grasp_dist |-> Unset,
     _prev_lift_leg_z_dist |-> Unset,
     _prev_lift_leg_xy_dist |-> Unset,
     _prev_move_pos_dist |-> Unset,
     _prev_move_ang_dist |-> Unset,
     _prev_move_forward_ang_dist |-> Unset,
     _prev_proj_t |-> Unset,
     _prev_proj_l |-> Unset]

Entry(s) ==
    [_phase_i |-> s._phase_i, _subtask_step |-> s._subtask_step,
     _leg_touched |-> s._leg_touched, _leg_lift |-> s._leg_lift,
     _leg_fine_aligned |-> s._leg_fine_aligned,
     _init_table_site_pos |-> s._init_table_site_pos]

\* nothing was given to the constructor; _reset is given the placement p;
\* a step the snapshot b, the phase queries e, the next placement n, the
\* action ac and the horizon test last
NothingGiven == [last |-> FALSE]
GivenReset(p) == [last |-> FALSE, p |-> p]
GivenStep(b, e, n, ac, last) ==
    [last |-> last, b |-> b, e |-> e, n |-> n, ac |-> ac]

\* the baseline the distance term of phase i is measured from
Baseline(s, i) ==
    CASE i = 0 -> s._prev_eef_above_leg_dist
      [] i \in {1, 2} -> s._prev_eef_leg_dist
      [] i = 3 -> IF IsSet(s._prev_lift_leg_z_dist)
                     /\ IsSet(s._prev_lift_leg_xy_dist)
                  THEN Some(Get(s._prev_lift_leg_z_dist)
                                + Get(s._prev_lift_leg_xy_dist))
                  ELSE Unset
      [] OTHER -> s._prev_move_pos_dist

NoRun == [phase |-> 0 - 1, subtask |-> 0 - 1, base |-> Unset, sum |-> 0]

\* the run after a step that was dispatched on s3 and returned out
NextRun(r, s3, out) ==
    IF ~s3._diff_rew \/ out.raised \/ s3._phase_i = 6 THEN NoRun
    ELSE IF r.phase = s3._phase_i /\ r.subtask = s3._subtask_step
    THEN [r EXCEPT !.sum = @ + out.dist_rew]
    ELSE [phase |-> s3._phase_i, subtask |-> s3._subtask_step,
          base |-> Baseline(s3, s3._phase_i), sum |-> out.dist_rew]

NoneAwarded == [touch |-> 0, lift |-> 0]

\* the bonuses paid after a step that was dispatched on s3 and returned out:
\* a new subtask starts the count again
NextAwarded(a, s3, out) ==
    IF out.self._subtask_step # s3._subtask_step THEN NoneAwarded
    ELSE IF out.once_rew = 0 THEN a
    ELSE IF s3._phase_i = 2 THEN [a EXCEPT !.touch = @ + 1]
    ELSE [a EXCEPT !.lift = @ + 1]

(***************************************************************************)
(* UniformRandomSampler (placement_sampler.py).  Lengths are whole units   *)
(* of a grid; an object is its name, and a placed object the tuple the     *)
(* code keeps: name, horizontal radius, and the x and y of its Qpos.  The  *)
(* z coordinate and the quaternion take no part in the overlap test and    *)
(* are left out.                                                           *)
(***************************************************************************)
mujoco_objects == <<"part0", "part1", "part2", "part3">>

ObjectNames == { mujoco_objects[k] : k \in 1 .. Len(mujoco_objects) }

get_horizontal_radius(obj_name) == IF obj_name = "part0" THEN 2 ELSE 1

\* setup overrides the offset it is given with 0.
table_top_offset == 0

\* The retries sample allows each object (range(10000) in the code).
MaxAttempts == 3

\* What rng.uniform can return for sample_x and sample_y.
SampleX == {-3, 0, 2, 3}

SampleY == {0, 3}

\* init_qpos: the start position the draw of each object is added to.
InitQpos ==
    { [o \in ObjectNames |-> <<0, 0>>],
      [o \in ObjectNames |-> IF o = "part1" THEN <<1, 0>> ELSE <<0, 0>>] }

\* The lists setup can pass as placed_objects_orig: the objects whose pose
\* the xml gives, each at its init_qpos.
preset_objects(init_qpos) ==
    { << >>,
      << [name |-> "part0", r |-> get_horizontal_radius("part0"),
          x |-> init_qpos["part0"][1], y |-> init_qpos["part0"][2]] >> }

Without(objects, names) == SelectSeq(objects, LAMBDA o : o \notin names)

PlacedNames(placed_objects) ==
    { placed_objects[k].name : k \in 1 .. Len(placed_objects) }

NotSampling ==
    [pc |-> "idle", objects |-> << >>, placed_objects |-> << >>,
     pos_arr |-> [o \in ObjectNames |-> Unset], i |-> 0,
     init_qpos |-> [o \in ObjectNames |-> <<0, 0>>], orig |-> 0]

\* The test of the inner loop of sample: the location is invalid as soon as
\* the norm of the offset to one placed object is at most the sum of the
\* radii; on whole numbers norm <= r exactly when the squared norm <= r * r.
location_valid_LastOnly(obj_x, obj_y, obj_r, placed_objects) ==
    \A k \in (IF placed_objects = << >> THEN {} ELSE {Len(placed_objects)}) :
        LET po == placed_objects[k]
        IN  ~ ((obj_x - po.x) * (obj_x - po.x) + (obj_y - po.y) * (obj_y - po.y)
                  <= (po.r + obj_r) * (po.r + obj_r))

location_valid(obj_x, obj_y, obj_r, placed_objects) ==
    \A k \in 1 .. Len(placed_objects) :
        LET po == placed_objects[k]
        IN  ~ ((obj_x - po.x) * (obj_x - po.x) + (obj_y - po.y) * (obj_y - po.y)
                  <= (po.r + obj_r) * (po.r + obj_r))

\* sample up to its outer loop: the copy of placed_objects_orig, the default
\* of objects, and the poses of the preset objects when objects is None.
sample_begin(objects, placed_objects_orig, init_qpos) ==
    LET placed_objects == IF placed_objects_orig = Unset THEN << >>
                          ELSE placed_objects_orig[1]
        todo == IF objects = Unset
                THEN Without(mujoco_objects, PlacedNames(placed_objects))
                ELSE objects[1]
        pos_arr == [o \in ObjectNames |->
                      IF objects = Unset /\ o \in PlacedNames(placed_objects)
                      THEN LET part == placed_objects[CHOOSE k \in 1 .. Len(placed_objects) :
                                                      placed_objects[k].name = o]
                           IN  Some(<<table_top_offset + part.x,
                                      table_top_offset + part.y>>)
                      ELSE Unset]
    IN  [pc |-> IF todo = << >> THEN "returned" ELSE "sampling",
         objects |-> todo, placed_objects |-> placed_objects,
         pos_arr |-> pos_arr, i |-> 0, init_qpos |-> init_qpos,
         orig |-> Len(placed_objects)]

\* One pass of the retry loop for the object in turn, with the draws sx and
\* sy: a valid location is placed and the loop left, and sample returns when
\* it was the last object; the pass that fails as the last one allowed
\* raises RandomizationError.
sample_attempt(s, sx, sy) ==
    LET obj_name == Head(s.objects)
        obj_r == get_horizontal_radius(obj_name)
        obj_x == s.init_qpos[obj_name][1] + sx
        obj_y == s.init_qpos[obj_name][2] + sy
        pos == <<table_top_offset + obj_x, table_top_offset + obj_y>>
    IN  IF location_valid(obj_x, obj_y, obj_r, s.placed_objects)
        THEN [s EXCEPT
                !.placed_objects = Append(@, [name |-> obj_name, r |-> obj_r,
                                              x |-> pos[1], y |-> pos[2]]),
                !.pos_arr[obj_name] = Some(pos),
                !.objects = Tail(@),
                !.i = 0,
                !.pc = IF Tail(s.objects) = << >> THEN "returned" ELSE "sampling"]
        ELSE [s EXCEPT !.i = @ + 1,
                       !.pc = IF s.i + 1 >= MaxAttempts THEN "raised"
                              ELSE "sampling"]

\* A call of sample: with the defaults, as the environment calls it at a
\* reset, or with the remaining objects and the presets, as setup calls it.
SampleCall ==
    /\ sampler.pc \in {"idle", "returned", "raised"}
    /\ \E init_qpos \in InitQpos :
         \E placed_objects_orig \in {Unset} \cup
                 { Some(p) : p \in preset_objects(init_qpos) } :
           \E objects \in {Unset} \cup
                 (IF placed_objects_orig = Unset THEN {}
                  ELSE { Some(Without(mujoco_objects,
                                      PlacedNames(placed_objects_orig[1]))) }) :
             sampler' = sample_begin(objects, placed_objects_orig, init_qpos)
    /\ UNCHANGED <<self, ret, raised, exception, pc, entry, given, run, awarded>>

SampleAttempt ==
    /\ sampler.pc = "sampling"
    /\ \E sx \in SampleX, sy \in SampleY :
           sampler' = sample_attempt(sampler, sx, sy)
    /\ UNCHANGED <<self, ret, raised, exception, pc, entry, given, run, awarded>>

InitSampler ==
    /\ self = Constructed(TRUE, 0)
    /\ ret = NoReturn
    /\ raised = FALSE
    /\ exception = NoException
    /\ pc = "constructed"
    /\ entry = Entry(self)
    /\ given = NothingGiven
    /\ run = NoRun
    /\ awarded = NoneAwarded
    /\ sampler = NotSampling

NextSampler == SampleCall \/ SampleAttempt

SpecSampler == InitSampler /\ [][NextSampler]_vars

Init ==
    /\ \E d \in BOOLEAN, k \in 0 .. (_success_num_conn - 1) :
           self = Constructed(d, k)
    /\ ret = NoReturn
    /\ raised = FALSE
    /\ exception = NoException
    /\ pc = "constructed"
    /\ entry = Entry(self)
    /\ given = NothingGiven
    /\ run = NoRun
    /\ awarded = NoneAwarded
    /\ sampler = NotSampling

\* _reset -> _reset_reward_variables
ResetCall(starts) ==
    /\ \E p \in starts :
         \E s1 \in {_reset_reward_variables(self, p)} :
             /\ self' = s1
             /\ entry' = Entry(s1)
             /\ given' = GivenReset(p)
    /\ run' = NoRun
    /\ awarded' = NoneAwarded
    /\ UNCHANGED sampler
    /\ ret' = NoReturn
    /\ raised' = FALSE
    /\ exception' = NoException
    /\ pc' = "reset"

\* the first _reset of a constructed object
Reset ==
    /\ pc = "constructed"
    /\ ResetCall(StartReads)

\* a later _reset of the same object: the driver starts the next episode
\* when the last one has ended, by done or by an exception
ResetEnded ==
    /\ pc = "stepped"
    /\ raised \/ ret.done \/ given.last
    /\ ResetCall(StartReads)

\* The answers of the backend that can change what a step starting in s
\* does.  A quantity that the step's path never branches on is held at one
\* answer (Pinned): the wrist axes once the phase is past grasp_leg, the
\* site pose and the table position while the phase stays before lift_leg,
\* the site pose once the phase is move_leg_fine (connection and alignment
\* are queries of their own), the part height where lift_leg_succ and
\* align_leg_succ are not reached.
Pinned(s) ==
    [left |-> TRUE, right |-> TRUE,
     eef_up_grasp_dist |-> StableWrist[1],
     eef_forward_grasp_dist |-> StableWrist[2],
     table_site_pos |-> s._init_table_site_pos,
     leg_pos |-> [xy |-> 0, z |-> 0],
     site_dz |-> z_finedist - 5,
     cos_up |-> _align_rot_threshold, cos_forward |-> _align_rot_threshold,
     proj_table |-> 980, proj_leg |-> 990]

\* once the leg is carried a lost contact ends the episode, whichever
\* finger lost it
GripReads(s) ==
    {[left |-> c[1], right |-> c[2],
      eef_up_grasp_dist |-> w[1], eef_forward_grasp_dist |-> w[2]] :
        c \in IF s._phase_i < 3 THEN ContactVals
              ELSE {<<TRUE, TRUE>>, <<TRUE, FALSE>>},
        w \in IF s._phase_i < 3 THEN WristVals ELSE {StableWrist}}

SiteReads(s) ==
    IF s._phase_i = 6
    THEN {[site_dz |-> z_finedist - 5, cos_up |-> _align_rot_threshold,
           cos_forward |-> _align_rot_threshold,
           proj_table |-> 980, proj_leg |-> 990]}
    ELSE {[site_dz |-> q.site_dz, cos_up |-> q.cos_up,
           cos_forward |-> IF Len(s._leg_allowed_angles) > 0
                           THEN q.cos_forward ELSE _align_rot_threshold,
           proj_table |-> pt, proj_leg |-> pl] :
              q \in IF s._phase_i = 5 THEN MovePoseVals ELSE SitePoseVals,
              pt \in ProjTableVals, pl \in ProjLegVals}

PoseReads(s, g) ==
    LET far == g @@ Pinned(s)
        touched == g.left /\ g.right
        a == SkipToLiftLeg(_collect_values(s, far),
                           _stable_grip_reward(s, far).info)._phase_i
    IN  IF a < 3 THEN {far}
        ELSE UNION {
               LET bs == site @@ far
                   p == AfterSkips(s, bs)._phase_i
               IN  UNION {
                     {[bs EXCEPT !.leg_pos = l, !.table_site_pos = tp] :
                        l \in IF p \in {3, 4} /\ touched
                                 /\ tp = s._init_table_site_pos
                              THEN [xy : LegXYVals,
                                    z : IF p = 3 THEN LegZVals
                                        ELSE AlignLegZVals]
                              ELSE {[xy |-> 0, z |-> 0]}}
                     : tp \in TablePosVals}
               : site \in SiteReads(s)}

BaseReadsFor(s) == UNION {PoseReads(s, g) : g \in GripReads(s)}

\* the gripper action is read by grasp_leg alone
ActionsFor(s) ==
    IF s._phase_i = 2 THEN Actions
    ELSE {[arm |-> <<0, 0>>, grip |-> 1000, connect |-> 1000]}

\* _step: one _compute_reward call while the episode runs, the backend
\* answering from reads (and from starts when the next subtask begins), the
\* policy acting, in phase i, from acts[i], and the horizon test answering
\* from lasts; the horizon ends the episode with its last step
StepWith(reads, acts, starts, lasts) ==
    /\ pc \in {"reset", "stepped"}
    /\ ~raised
    /\ ~ret.done
    /\ ~given.last
    /\ \E b \in reads, last \in lasts :
         \E s3 \in {AfterSkips(self, b)} :
             \E e \in PhaseReads(s3), ac \in acts[s3._phase_i] :
               \E n \in NextSubtaskReads(s3, e, starts) :
                 \E out \in {_compute_reward(self, b, e, n, ac, last)} :
                     /\ self' = out.self
                     /\ ret' = IF out.raised THEN NoReturn
                               ELSE [reward |-> out.reward,
                                     done |-> out.done, info |-> out.info]
                     /\ raised' = out.raised
                     /\ exception' = out.exception
                     /\ pc' = "stepped"
                     /\ entry' = Entry(self)
                     /\ given' = GivenStep(b, e, n, ac, last)
                     /\ run' = NextRun(run, s3, out)
                     /\ awarded' = NextAwarded(awarded, s3, out)
    /\ UNCHANGED sampler

\* the actions the policy takes in each phase
PhaseActions ==
    [i \in 0 .. (Len(_phases) - 1) |-> ActionsFor([_phase_i |-> i])]

\* a step of an episode whose horizon is never reached
Step == StepWith(BaseReadsFor(self), PhaseActions, StartReads, {FALSE})

\* one episode of every constructed object
Next == Reset \/ Step

Spec == Init /\ [][Next]_vars

\* successive episodes of an object that has one connection left to make
InitEpisodes ==
    /\ Init
    /\ self._preassembled = _success_num_conn - 1

NextEpisodes == Reset \/ ResetEnded \/ Step

SpecEpisodes == InitEpisodes /\ [][NextEpisodes]_vars

\* Episodes under every action: the arm components and the gripper action
\* range over their sets on every step, the penalty coefficients over zero
\* and a positive value, while the backend keeps a stable wrist, the left
\* finger in contact and the table in place, the leg resting or lifted and
\* the leg site off the position threshold.
PenaltyCoefVals ==
    {[ctrl |-> 0, gripper |-> 0],
     [ctrl |-> _ctrl_penalty_coef, gripper |-> _gripper_penalty_coef]}

\* the arm at rest, at full deflection and in between, with the gripper
\* open, half closed and closed
AllActions ==
    {[arm |-> a[1], grip |-> a[2], connect |-> 1000] : a \in
        {<<ArmAtRest, 1000>>, <<ArmAtRest, 0 - 1000>>,
         <<ArmFull, 0>>, <<ArmPartial, 1000>>}}

SteadyReadsFor(s) ==
    {b \in BaseReadsFor(s) :
        /\ b.left
        /\ <<b.eef_up_grasp_dist, b.eef_forward_grasp_dist>> = StableWrist
        /\ b.table_site_pos = s._init_table_site_pos
        /\ b.site_dz # _move_pos_threshold
        /\ b.leg_pos.z \in {0, 195}}

InitActions ==
    /\ \E d \in BOOLEAN, c \in PenaltyCoefVals :
           self = [Constructed(d, _success_num_conn - 1) EXCEPT
                      !._ctrl_penalty_coef = c.ctrl,
                      !._gripper_penalty_coef = c.gripper]
    /\ ret = NoReturn
    /\ raised = FALSE
    /\ exception = NoException
    /\ pc = "constructed"
    /\ entry = Entry(self)
    /\ given = NothingGiven
    /\ run = NoRun
    /\ awarded = NoneAwarded
    /\ sampler = NotSampling

StepAnyAction ==
    StepWith(SteadyReadsFor(self),
             [i \in 0 .. (Len(_phases) - 1) |-> AllActions],
             StartReads, {FALSE})

NextActions == Reset \/ StepAnyAction

SpecActions == InitActions /\ [][NextActions]_vars

\* Episodes from every placement and of every horizon: the parts start at
\* either table position and either height, any step can be the last one the
\* horizon allows, while the backend keeps a stable wrist and the left
\* finger in contact, the leg resting or lifted, and the leg site off the
\* position thresholds with its axes aligned or on the alignment threshold.
PlacementReads ==
    [table_site_pos : TablePosVals,
     leg_pos : [xy : LegXYVals, z : {0, 15}],
     eef_xy : EefXYVals, eef_z : {85}, grasp_z : GraspZVals]

PlacedReadsFor(s) ==
    {b \in BaseReadsFor(s) :
        /\ <<b.eef_up_grasp_dist, b.eef_forward_grasp_dist>> = StableWrist
        /\ b.left
        /\ b.leg_pos.z \in {0, 195}
        /\ b.site_dz \in {5, z_finedist - 5}
        /\ b.cos_up \in {_align_rot_threshold, 1000}
        /\ b.cos_forward \in {_align_rot_threshold, 1000}}

ResetPlaced ==
    /\ pc = "constructed"
    /\ ResetCall(PlacementReads)

StepPlaced ==
    StepWith(PlacedReadsFor(self), PhaseActions, PlacementReads, BOOLEAN)

NextPlacements == ResetPlaced \/ StepPlaced

SpecPlacements == Init /\ [][NextPlacements]_vars

-----------------------------------------------------------------------------
(* Observations the properties are stated in.                              *)

\* the last call was a step that returned (it did not raise)
Returned == pc = "stepped" /\ ~raised

\* the phase the last step was dispatched in: info['phase_i'] minus
\* len(_phases) times the subtask index
DispatchedPhase == ret.info.phase_i - Len(_phases) * ret.info.subtask

\* the phase skip check (b) of the last step was evaluated in: lift_leg when
\* check (a) fired, the phase the step started in otherwise
PhaseAtFineSkip ==
    IF entry._phase_i < 2 /\ ret.info.touch /\ ret.info.stable_grip_succ
    THEN 3 ELSE entry._phase_i

\* the criteria of skip check (b) on the values the last step collected
FineCriteria ==
    LET v == self._current_values
    IN  /\ v.move_pos_dist < _move_pos_threshold
        /\ v.move_ang_dist > _move_rot_threshold
        /\ v.move_forward_ang_dist > _move_rot_threshold

\* the criteria of skip check (c) on the values the last step collected
CoarseCriteria ==
    LET v == self._current_values
    IN  /\ v.move_ang_dist > _align_rot_threshold
        /\ v.move_forward_ang_dist > _align_rot_threshold

\* the last step found no two-finger contact or a displaced table
Disturbed ==
    \/ ~ret.info.touch
    \/ ret.info.table_displacement > 100

-----------------------------------------------------------------------------
(* C1 *)

\* C1: in every state reachable by resets and steps, _phase_i is an index
\* of the seven-element phase list (0..6), both where the step looked the
\* phase up for dispatch and after the step returned.
C1_PhaseIndexValid ==
    /\ self._phase_i \in 0 .. (Len(_phases) - 1)
    /\ Returned => DispatchedPhase \in 0 .. (Len(_phases) - 1)

\* a reset that follows an episode which reached move_leg_fine (its
\* baselines are still there): the index is back at 0
C1_Witness ==
    /\ pc = "reset"
    /\ IsSet(self._prev_proj_l)
    /\ self._phase_i = 0

-----------------------------------------------------------------------------
(* C2 *)

\* C2: once the episode has been reset, no call lowers _subtask_step, and
\* _subtask_step never exceeds _success_num_conn.
C2_SubtaskMonotone ==
    [][pc # "constructed" =>
          /\ self._subtask_step' >= self._subtask_step
          /\ self._subtask_step' <= _success_num_conn]_vars

\* both connections of the recipe made within one episode
C2_Witness ==
    /\ Returned
    /\ self._preassembled = 0
    /\ entry._subtask_step = _success_num_conn - 1
    /\ self._subtask_step = _success_num_conn
    /\ ret.done

-----------------------------------------------------------------------------
(* C3 *)

\* C3: a step that leaves _subtask_step unchanged never lowers _phase_i; the
\* only step that lowers it is the connect step dispatched in move_leg_fine
\* (reached in an earlier step or by the skip checks of this one), which
\* sets it to 0.
C3_PhaseMonotoneWithinSubtask ==
    [][pc # "constructed" /\ pc' = "stepped" =>
          /\ self._subtask_step' = self._subtask_step
                => self._phase_i' >= self._phase_i
          /\ self._phase_i' < self._phase_i =>
                /\ ~raised'
                /\ DispatchedPhase' = 6
                /\ ret'.info.connect_succ
                /\ ret'.info.table_displacement <= 100
                /\ self._subtask_step' = self._subtask_step + 1
                /\ self._phase_i' = 0]_vars

\* the connect step of the first of two connections: from index 6 to 0
C3_Witness ==
    /\ Returned
    /\ entry._phase_i = 6
    /\ self._phase_i = 0
    /\ self._subtask_step = entry._subtask_step + 1
    /\ ~ret.done

-----------------------------------------------------------------------------
(* C4 *)

\* the phase bonus the branch of the dispatched phase awards by itself on a
\* step that holds the leg: the disturbance penalty, the phase's success
\* bonus, or nothing
BonusOfDispatchedPhase ==
    IF ret.info.table_displacement > 100 THEN (0 - _phase_bonus) \div 2
    ELSE IF DispatchedPhase = 3
    THEN IF ret.info.lift_leg_succ THEN _phase_bonus ELSE 0
    ELSE IF DispatchedPhase = 5
    THEN IF ret.info.move_leg_succ THEN _phase_bonus * 5 ELSE 0
    ELSE IF ret.info.connect_succ THEN _phase_bonus * 5 ELSE 0

\* C4 as stated: a step that starts in move_eef_above_leg or lower_eef_to_leg
\* with the leg touched and the grip stable reports lift_leg as its phase,
\* and its phase_bonus holds no bonus for the skipped phases.
C4_AsStated ==
    (/\ Returned
     /\ entry._phase_i < 2
     /\ ret.info.touch
     /\ ret.info.stable_grip_succ)
    => /\ DispatchedPhase = 3
       /\ ret.info.phase_bonus = BonusOfDispatchedPhase

\* C4: a step that starts in move_eef_above_leg or lower_eef_to_leg with the
\* leg touched and the grip stable is moved to lift_leg before dispatch; it
\* reports lift_leg unless skip check (b) or (c) fires in the same step, and
\* then move_leg_fine or move_leg; its phase_bonus is what the reported
\* phase's branch awards, with no bonus for the skipped phases.
C4_SkipToLiftLeg ==
    (/\ Returned
     /\ entry._phase_i < 2
     /\ ret.info.touch
     /\ ret.info.stable_grip_succ)
    => /\ DispatchedPhase = IF FineCriteria THEN 6
                            ELSE IF CoarseCriteria THEN 5 ELSE 3
       /\ ret.info.phase_bonus = BonusOfDispatchedPhase

\* a step from move_eef_above_leg that skips to lift_leg and on to
\* move_leg_fine
C4_Witness ==
    /\ Returned
    /\ entry._phase_i = 0
    /\ ret.info.touch
    /\ ret.info.stable_grip_succ
    /\ DispatchedPhase = 6
    /\ ret.info.phase_bonus = 0

-----------------------------------------------------------------------------
(* C5 *)

\* the success flag of the reward function of phase 0 or 1
ApproachSucc ==
    IF DispatchedPhase = 0 THEN ret.info.move_eef_above_leg_succ
    ELSE ret.info.lower_eef_to_leg_succ

\* C5: on a step dispatched in move_eef_above_leg or lower_eef_to_leg, the
\* phase advances by exactly one and phase_bonus is exactly _phase_bonus when
\* the phase's success flag and stable_grip_succ are both true; otherwise
\* the phase is unchanged and phase_bonus is 0.
C5_ApproachAdvance ==
    (Returned /\ DispatchedPhase \in {0, 1})
    => IF ApproachSucc /\ ret.info.stable_grip_succ
       THEN /\ self._phase_i = DispatchedPhase + 1
            /\ ret.info.phase_bonus = _phase_bonus
       ELSE /\ self._phase_i = DispatchedPhase
            /\ ret.info.phase_bonus = 0

\* lower_eef_to_leg reached its target with an unstable grip: no advance
C5_Witness ==
    /\ Returned
    /\ DispatchedPhase = 1
    /\ ret.info.lower_eef_to_leg_succ
    /\ ~ret.info.stable_grip_succ
    /\ self._phase_i = 1
    /\ ret.info.phase_bonus = 0

-----------------------------------------------------------------------------
(* C6 *)

-----------------------------------------------------------------------------
(* C7 *)

\* the five baselines of move_leg_fine hold the values the step collected
FineBaselinesCurrent ==
    LET v == self._current_values
    IN  /\ self._prev_move_pos_dist = Some(v.move_pos_dist)
        /\ self._prev_move_ang_dist = Some(v.move_ang_dist)
        /\ self._prev_move_forward_ang_dist = Some(v.move_forward_ang_dist)
        /\ self._prev_proj_t = Some(v.proj_table)
        /\ self._prev_proj_l = Some(v.proj_leg)

\* C7: a step whose phase at the evaluation of skip check (b) is lift_leg or
\* align_leg, and whose collected values meet the position and both angular
\* criteria, is dispatched in move_leg_fine with the five baselines set to
\* the collected values; a step of any other phase is dispatched in
\* move_leg_fine only if it started there.
C7_SkipToMoveLegFine ==
    Returned =>
       /\ (PhaseAtFineSkip \in {3, 4} /\ FineCriteria)
             => (DispatchedPhase = 6 /\ FineBaselinesCurrent)
       /\ DispatchedPhase = 6
             => \/ entry._phase_i = 6
                \/ PhaseAtFineSkip \in {3, 4} /\ FineCriteria

\* a step from align_leg that skips to move_leg_fine
C7_Witness ==
    /\ Returned
    /\ entry._phase_i = 4
    /\ FineCriteria
    /\ DispatchedPhase = 6
    /\ FineBaselinesCurrent

-----------------------------------------------------------------------------
(* C8 *)

\* C8: a step whose phase is lift_leg once skip check (b) has been
\* evaluated, and whose two angular distances exceed _align_rot_threshold,
\* is dispatched in move_leg, whatever the position; the two angular
\* baselines hold the collected values and, while the phase stays move_leg,
\* _prev_move_pos_dist holds move_above_pos_dist; a step of any other phase
\* is dispatched in move_leg only if it started there.
C8_SkipToMoveLeg ==
    Returned =>
       LET v == self._current_values
           fires == PhaseAtFineSkip = 3 /\ ~FineCriteria /\ CoarseCriteria
       IN  /\ fires =>
                /\ DispatchedPhase = 5
                /\ self._prev_move_ang_dist = Some(v.move_ang_dist)
                /\ self._prev_move_forward_ang_dist
                      = Some(v.move_forward_ang_dist)
                /\ self._phase_i = 5
                      => self._prev_move_pos_dist
                            = Some(v.move_above_pos_dist)
           /\ DispatchedPhase = 5 => (entry._phase_i = 5 \/ fires)

\* a step from lift_leg that skips to move_leg far from the target position
C8_Witness ==
    /\ Returned
    /\ entry._phase_i = 3
    /\ CoarseCriteria
    /\ self._current_values.move_above_pos_dist >= _move_pos_threshold
    /\ DispatchedPhase = 5
    /\ self._phase_i = 5
    /\ self._prev_move_pos_dist
          = Some(self._current_values.move_above_pos_dist)

-----------------------------------------------------------------------------
(* C9 *)

\* the reward variables as _update_reward_variables leaves them for the
\* object's current subtask
ReInitialised ==
    LET r == _recipe[self._subtask_step]
    IN  /\ self._leg = r.leg
        /\ self._table = r.table
        /\ self._leg_site = r.leg_site
        /\ self._table_site = r.table_site
        /\ self._leg_allowed_angles = r.allowed_angles
        /\ ~self._leg_touched
        /\ ~self._leg_lift
        /\ self._leg_fine_aligned = 0
        /\ self._lift_leg_pos.xy = self._init_lift_leg_pos.xy
        /\ self._lift_leg_pos.z = self._init_lift_leg_pos.z + 200
        /\ self._diff_rew =>
              /\ IsSet(self._prev_eef_above_leg_dist)
              /\ self._prev_grasp_dist = Some(0 - 1000)
              /\ self._prev_lift_leg_z_dist = Some(200)
              /\ self._prev_lift_leg_xy_dist = Some(0)

\* what C9 promises of a connect step
ConnectOutcome ==
    /\ self._subtask_step = entry._subtask_step + 1
    /\ IF self._subtask_step = _success_num_conn
       THEN ret.done /\ self._success
       ELSE /\ ~ret.done
            /\ ~self._success
            /\ self._phase_i = 0
            /\ ReInitialised

\* C9 as stated: whenever a step is dispatched in move_leg_fine with
\* connect_succ true, _subtask_step is incremented by one; the episode ends
\* with success when it reaches _success_num_conn, and otherwise goes on
\* with _phase_i = 0 and the reward variables re-initialised.
C9_AsStated ==
    (Returned /\ DispatchedPhase = 6 /\ ret.info.connect_succ)
    => ConnectOutcome

\* C9: whenever a step is dispatched in move_leg_fine with connect_succ true
\* and the table not displaced by more than 0.1, _subtask_step is
\* incremented by one; the episode ends with success when it reaches
\* _success_num_conn, and otherwise goes on with _phase_i = 0 and the reward
\* variables re-initialised.
C9_Connect ==
    (/\ Returned
     /\ DispatchedPhase = 6
     /\ ret.info.connect_succ
     /\ ret.info.table_displacement <= 100)
    => ConnectOutcome

\* the first of two connections: the episode goes on with the next subtask
C9_Witness ==
    /\ Returned
    /\ DispatchedPhase = 6
    /\ ret.info.connect_succ
    /\ ret.info.table_displacement <= 100
    /\ self._subtask_step = 1
    /\ self._subtask_step < _success_num_conn
    /\ ~ret.done
    /\ self._phase_i = 0
    /\ ReInitialised

-----------------------------------------------------------------------------
(* C10 *)

\* what C10 promises of a failed step
FailureOutcome ==
    /\ ret.done
    /\ ~self._success
    /\ ret.info.phase_bonus = (0 - _phase_bonus) \div 2

\* C10 as stated, the phase being the one the step starts in: a step in
\* lift_leg, align_leg or move_leg that finds no two-finger contact or a
\* table displaced by more than 0.1 returns done without success and a
\* phase_bonus of exactly -_phase_bonus / 2.
C10_AsStated ==
    (Returned /\ entry._phase_i \in {3, 4, 5} /\ Disturbed)
    => FailureOutcome

\* C10: a step dispatched, after the skip checks, in lift_leg, align_leg or
\* move_leg that finds no two-finger contact or a table displaced by more
\* than 0.1 returns done without success and a phase_bonus of exactly
\* -_phase_bonus / 2, applied once when both hold; the phase is unchanged.
C10_FailureInCarryPhases ==
    (Returned /\ DispatchedPhase \in {3, 4, 5} /\ Disturbed)
    => /\ FailureOutcome
       /\ self._phase_i = DispatchedPhase

\* align_leg with the contact lost and the table displaced at once
C10_Witness ==
    /\ Returned
    /\ DispatchedPhase = 4
    /\ ~ret.info.touch
    /\ ret.info.table_displacement > 100
    /\ ret.done
    /\ ret.info.phase_bonus = (0 - _phase_bonus) \div 2

-----------------------------------------------------------------------------
(* C11 *)

\* what C11 promises of a step that lost the leg in move_leg_fine
DropOutcome ==
    /\ ret.done
    /\ ~self._success
    /\ ret.info.phase_bonus = (0 - 2) * _phase_bonus

\* C11 as stated: every step dispatched in move_leg_fine where the
\* two-finger contact is false returns done without success and a
\* phase_bonus of exactly -2 * _phase_bonus.
C11_AsStated ==
    (Returned /\ DispatchedPhase = 6 /\ ~ret.info.touch)
    => DropOutcome

\* C11: every step dispatched in move_leg_fine where the two-finger contact
\* is false, the table is not displaced by more than 0.1 and connect_succ is
\* false returns done without success and a phase_bonus of exactly
\* -2 * _phase_bonus.
C11_DropInMoveLegFine ==
    (/\ Returned
     /\ DispatchedPhase = 6
     /\ ~ret.info.touch
     /\ ret.info.table_displacement <= 100
     /\ ~ret.info.connect_succ)
    => DropOutcome

\* the leg is lost in move_leg_fine with the table in place and no
\* connection
C11_Witness ==
    /\ Returned
    /\ DispatchedPhase = 6
    /\ ~ret.info.touch
    /\ ret.info.table_displacement <= 100
    /\ ~ret.info.connect_succ
    /\ ret.done
    /\ ret.info.phase_bonus = (0 - 2) * _phase_bonus

-----------------------------------------------------------------------------
(* C12 *)

\* the last step connected the part: the subtask index advanced
Connected == self._subtask_step = entry._subtask_step + 1

\* the last step ended the episode without success
Failed == ret.done /\ ~self._success

\* C12: the phase_bonus of a step is made of what its dispatch branch did.
\* A forward transition from the dispatched phase adds exactly _phase_bonus,
\* the move_leg -> move_leg_fine transition exactly 5 * _phase_bonus, and the
\* connect event exactly 5 * _phase_bonus, from which the dwell deduction
\* of the connect step (_aligned_bonus_coef per aligned frame) is taken; the
\* phase skips that moved the step to its dispatched phase add nothing; a
\* step with no transition and no failure has phase_bonus = 0.
C12_PhaseBonusAccounting ==
    Returned =>
       LET p == DispatchedPhase
           bonus == ret.info.phase_bonus
       IN  /\ Connected
                => bonus + entry._leg_fine_aligned * _aligned_bonus_coef
                      = 5 * _phase_bonus
           /\ (~Connected /\ self._phase_i = p + 1)
                => bonus = IF p = 5 THEN 5 * _phase_bonus ELSE _phase_bonus
           /\ (~Connected /\ self._phase_i = p /\ ~Failed) => bonus = 0
           /\ Connected \/ self._phase_i \in {p, p + 1}

\* a step that starts in lift_leg, is moved to move_leg by skip check (c)
\* and advances to move_leg_fine: the skip adds nothing to the 5-fold bonus
C12_Witness ==
    /\ Returned
    /\ entry._phase_i = 3
    /\ DispatchedPhase = 5
    /\ self._phase_i = 6
    /\ ret.info.phase_bonus = 5 * _phase_bonus

-----------------------------------------------------------------------------
(* C13 *)

\* the last step ran the reward function of move_leg_fine past the
\* connection test, so that it evaluated the alignment
FineFrame == Returned /\ DispatchedPhase = 6 /\ ~ret.info.connect_succ

\* the connect step pays 5 * _phase_bonus less _aligned_bonus_coef times the
\* counter it found
DwellDeduction ==
    (Returned /\ Connected)
    => ret.info.phase_bonus
          = 5 * _phase_bonus - entry._leg_fine_aligned * _aligned_bonus_coef

\* C13 as stated: on the connect step the bonus is reduced by
\* _aligned_bonus_coef times the number of consecutive fully aligned frames
\* immediately before connecting: the counter the deduction uses is
\* restarted by a frame in which move_leg_fine_succ is false.
C13_AsStated ==
    /\ DwellDeduction
    /\ (FineFrame /\ ~ret.info.move_leg_fine_succ)
          => self._leg_fine_aligned = 0

\* C13: on the connect step the bonus is reduced by _aligned_bonus_coef
\* times the number of frames of the subtask in which move_leg_fine_succ was
\* true, consecutive or not: the counter grows by one on every such frame,
\* and a frame in which alignment is lost, like every step that does not
\* connect, leaves it as it was.
C13_DwellCount ==
    /\ DwellDeduction
    /\ (Returned /\ ~Connected)
          => self._leg_fine_aligned
                = entry._leg_fine_aligned
                  + (IF FineFrame /\ ret.info.move_leg_fine_succ
                     THEN 1 ELSE 0)

\* a connect step after two aligned frames: the bonus is reduced by twice
\* the coefficient
C13_Witness ==
    /\ Returned
    /\ Connected
    /\ entry._leg_fine_aligned = 2
    /\ ret.info.phase_bonus = 5 * _phase_bonus - 2 * _aligned_bonus_coef

-----------------------------------------------------------------------------
(* C14 *)

\* the phase whose reward function the last step called, also when the
\* call raised: an exception leaves _phase_i as the skip checks set it
StepPhase == IF raised THEN self._phase_i ELSE DispatchedPhase

\* the last step met the condition of a drop or disturbance branch: in
\* lift_leg, align_leg and move_leg a lost contact or a displaced table, in
\* move_leg_fine a displaced table, or a lost contact without a connection
TerminatesByFailure ==
    LET v == self._current_values
    IN  /\ pc = "stepped"
        /\ \/ /\ StepPhase \in {3, 4, 5}
              /\ ~v.leg_touched \/ v.table_displacement > 100
           \/ /\ StepPhase = 6
              /\ \/ v.table_displacement > 100
                 \/ ~v.leg_touched /\ (raised \/ ~ret.info.connect_succ)

\* C14: after every step, _success is true only if the step returned
\* done=True with _subtask_step equal to _success_num_conn; every step that
\* meets a drop or disturbance condition returns, raising no exception,
\* done=True with _success false.
C14_FailureNeverSuccess ==
    /\ (pc = "stepped" /\ self._success)
          => (~raised /\ ret.done /\ self._subtask_step = _success_num_conn)
    /\ TerminatesByFailure => (~raised /\ ret.done /\ ~self._success)

\* the table is displaced on a step of move_leg_fine that finds the parts
\* connected: the step ends the episode, and not with success
C14_Witness ==
    /\ Returned
    /\ DispatchedPhase = 6
    /\ ret.info.connect_succ
    /\ ret.info.table_displacement > 100
    /\ ret.done
    /\ ~self._success

-----------------------------------------------------------------------------
(* C16 *)

\* the one-shot flags and the fine-alignment counter as
\* _update_reward_variables leaves them
FlagsCleared ==
    /\ ~self._leg_touched
    /\ ~self._leg_lift
    /\ self._leg_fine_aligned = 0

\* the last call started a subtask: a reset, or a step that connected a
\* part other than the last
SubtaskStarted ==
    \/ pc = "reset"
    \/ Returned /\ Connected /\ self._subtask_step < _success_num_conn

\* a skip check of the last step fired: it was dispatched in another phase
\* than it started in
Skipped == Returned /\ DispatchedPhase # entry._phase_i

\* C16 as stated: _leg_touched, _leg_lift and _leg_fine_aligned are reset at
\* every subtask start and at every phase-skip.  No branch of a phase at or
\* past move_leg sets a flag, so that a step skipped to such a phase
\* returns with the flags as the skip left them.
C16_AsStated ==
    /\ SubtaskStarted => FlagsCleared
    /\ (Skipped /\ DispatchedPhase \in {5, 6})
          => (~self._leg_touched /\ ~self._leg_lift)

\* C16: _leg_touched, _leg_lift and _leg_fine_aligned are reset, via
\* _update_reward_variables, at every subtask start; a phase-skip leaves
\* them as the step found them: after a step that skipped and did not
\* connect, _leg_touched is as on entry, _leg_lift is as on entry unless
\* lift_leg set it in the same step, and the counter is the one on entry
\* plus the step's own aligned frame.
C16_FlagsReset ==
    /\ SubtaskStarted => FlagsCleared
    /\ (Skipped /\ ~Connected)
          => /\ self._leg_touched = entry._leg_touched
             /\ entry._leg_lift => self._leg_lift
             /\ DispatchedPhase # 3 => self._leg_lift = entry._leg_lift
             /\ self._leg_fine_aligned
                   = entry._leg_fine_aligned
                     + (IF FineFrame /\ ret.info.move_leg_fine_succ
                        THEN 1 ELSE 0)

\* a step that starts in lift_leg with both flags set and is skipped to
\* move_leg_fine: the flags are still set when it returns
C16_Witness ==
    /\ Skipped
    /\ entry._phase_i = 3
    /\ DispatchedPhase = 6
    /\ ~Connected
    /\ entry._leg_touched /\ entry._leg_lift
    /\ self._leg_touched /\ self._leg_lift

-----------------------------------------------------------------------------
(* C17 *)

\* C17: immediately after an episode reset and immediately after every
\* non-final subtask advance, _phase_i = 0, _leg_touched = False,
\* _leg_lift = False and _leg_fine_aligned = 0; after a reset _subtask_step
\* equals the number of pre-assembled connections.
C17_SubtaskStartState ==
    /\ SubtaskStarted => (self._phase_i = 0 /\ FlagsCleared)
    /\ pc = "reset" => self._subtask_step = self._preassembled

\* a non-final connection made with a flag set and aligned frames counted:
\* the step returns with the state of a subtask start
C17_Witness ==
    /\ Returned
    /\ Connected
    /\ self._subtask_step < _success_num_conn
    /\ entry._leg_lift
    /\ entry._leg_fine_aligned > 0
    /\ self._phase_i = 0
    /\ FlagsCleared

-----------------------------------------------------------------------------
(* C15 *)

\* C15 as stated: in both reward modes and along every path through the
\* phases, every carried baseline a phase reward function reads has been
\* assigned before it is read: no call raises AttributeError.  In absolute
\* mode _grasp_leg_reward reads _prev_grasp_dist, which only the
\* differential branch of _update_reward_variables assigns.
C15_AsStated == exception # "AttributeError"

-----------------------------------------------------------------------------
(* C18 *)

\* C18: on every step whose dispatched phase is move_eef_above_leg or
\* lower_eef_to_leg the gripper penalty is exactly 0 for every gripper
\* action; in every other phase, for every gripper action in [-1, 1] and a
\* positive coefficient, the penalty is <= 0 and is 0 exactly when the
\* gripper action is 1 (fully closed).
C18_GripperPenalty ==
    Returned =>
       LET penalty == ret.info.gripper_penalty
       IN  /\ DispatchedPhase \in {0, 1} => penalty = 0
           /\ (DispatchedPhase \notin {0, 1}
               /\ self._gripper_penalty_coef > 0)
                => /\ penalty <= 0
                   /\ penalty = 0 <=> ret.info.gripper_action = 1000

\* a step that starts in lower_eef_to_leg with the gripper fully open and is
\* moved to lift_leg by skip check (a): it is charged for the open gripper
C18_Witness ==
    /\ Returned
    /\ entry._phase_i = 1
    /\ DispatchedPhase = 3
    /\ ret.info.gripper_action = 0 - 1000
    /\ self._gripper_penalty_coef > 0
    /\ ret.info.gripper_penalty = (0 - 2000) * self._gripper_penalty_coef

-----------------------------------------------------------------------------
(* C19 *)

\* C19: the assertions rew <= 0 of _ctrl_penalty and _gripper_penalty hold
\* on every step, for every action with components in [-1, 1], in every
\* phase, the penalty coefficients being non-negative: no step raises
\* AssertionError, and neither penalty a step returns is positive.
C19_PenaltiesNeverPositive ==
    /\ exception # "AssertionError"
    /\ Returned => (/\ ret.info.ctrl_penalty <= 0
                    /\ ret.info.gripper_penalty <= 0
                    /\ ret.reward.ctrl_penalty = ret.info.ctrl_penalty
                    /\ ret.reward.grip_penalty = ret.info.gripper_penalty)


\* a step of move_leg_fine with the arm at full deflection and the gripper
\* half closed: both penalties are negative
C19_Witness ==
    /\ Returned
    /\ DispatchedPhase = 6
    /\ ret.info.ctrl_penalty = (0 - 1000) * self._ctrl_penalty_coef
    /\ ret.info.ctrl_penalty < 0
    /\ ret.info.gripper_penalty < 0

-----------------------------------------------------------------------------
(* C20 *)

\* C20 as stated: the stable-grip reward contributes a nonzero value to a
\* step's reward only if the phase whose reward function the step
\* dispatches is before lift_leg; on every step dispatched in lift_leg or a
\* later phase its contribution is exactly 0.
C20_AsStated ==
    (Returned /\ DispatchedPhase >= 3) => ret.reward.stable_grip_rew = 0

\* C20: the stable-grip reward contributes a nonzero value to a step's
\* reward only if the phase the step starts in, before the skip checks, is
\* before lift_leg: on every step that starts in lift_leg or a later phase
\* its contribution is exactly 0, and on every step that starts before
\* lift_leg it is the sum of the two wrist terms, also when skip check (a)
\* has the step dispatched in lift_leg or beyond.
C20_StableGripUntilLift ==
    Returned =>
       IF entry._phase_i >= 3
       THEN ret.reward.stable_grip_rew = 0
       ELSE ret.reward.stable_grip_rew
               = ret.info.eef_up_grasp_rew + ret.info.eef_forward_grasp_rew

\* a step that starts in lower_eef_to_leg and is moved to lift_leg by skip
\* check (a): it is dispatched in lift_leg and still pays the wrist terms
C20_Witness ==
    /\ Returned
    /\ entry._phase_i = 1
    /\ DispatchedPhase = 3
    /\ ret.reward.stable_grip_rew < 0
    /\ ret.reward.stable_grip_rew
          = ret.info.eef_up_grasp_rew + ret.info.eef_forward_grasp_rew

-----------------------------------------------------------------------------
(* C21: telescoping of the distance terms in differential mode.           *)

\* the coefficient of the distance term of phase i
DistCoef(i) ==
    CASE i = 0 -> _eef_pos_dist_coef
      [] i \in {1, 2} -> _lower_eef_pos_dist_coef
      [] i = 3 -> _lift_dist_coef
      [] i = 4 -> _align_pos_dist_coef
      [] OTHER -> _move_pos_dist_coef

\* the distance the last step tracked, as its info reports it
TrackedDist ==
    CASE DispatchedPhase = 0 -> ret.info.eef_above_leg_dist
      [] DispatchedPhase \in {1, 2} -> ret.info.eef_leg_dist
      [] DispatchedPhase = 3 ->
             ret.info.lift_leg_z_dist + ret.info.lift_leg_xy_dist
      [] DispatchedPhase = 4 -> ret.info.align_pos_dist
      [] OTHER -> ret.info.move_pos_dist

\* C21: in differential mode, over the consecutive steps dispatched in one
\* phase before move_leg_fine, the distance terms sum to the coefficient
\* times 10 times (the baseline the first of them found minus the distance
\* the last of them tracked), however many steps there were.
C21_Telescoping ==
    (Returned /\ self._diff_rew /\ DispatchedPhase < 6)
        => /\ run.phase = DispatchedPhase
           /\ IsSet(run.base)
           /\ run.sum = DistCoef(DispatchedPhase) * 10
                            * (Get(run.base) - TrackedDist)

\* a run of move_leg steps whose last step made progress, after earlier
\* steps of the run had made some
C21_Witness ==
    /\ Returned /\ self._diff_rew
    /\ DispatchedPhase = 5
    /\ ret.info.move_pos_rew # 0
    /\ run.sum # ret.info.move_pos_rew
    /\ run.sum # 0

-----------------------------------------------------------------------------
(* C22: the success flags of align_leg and move_leg.                      *)

\* the two-finger contact and the angular similarities of the snapshot the
\* last step was given; a leg site without allowed angles has forward
\* similarity 1
GivenTouch == given.b.left /\ given.b.right
GivenForward ==
    IF Len(_recipe[ret.info.subtask].allowed_angles) > 0
    THEN given.b.cos_forward ELSE 1000

\* the distance of the part from where the lift succeeded, and of the leg
\* site from the point z_finedist above the table site
GivenAlignDist ==
    Norm2(Get(self._align_leg_pos).xy - given.b.leg_pos.xy,
          Get(self._align_leg_pos).z - given.b.leg_pos.z)
GivenMoveDist == Abs(z_finedist - given.b.site_dz)

\* C22: align_leg_succ (move_leg_succ) is true on a step exactly when the
\* position distance is strictly below _align_pos_threshold
\* (_move_pos_threshold), both angular similarities are strictly above
\* _align_rot_threshold (_move_rot_threshold) and both fingers touch the
\* leg; a value exactly on a threshold does not succeed.
C22_SuccessFlags ==
    /\ (Returned /\ DispatchedPhase = 4)
         => /\ ret.info.align_leg_succ
                  <=> /\ GivenAlignDist < _align_pos_threshold
                      /\ given.b.cos_up > _align_rot_threshold
                      /\ GivenForward > _align_rot_threshold
                      /\ GivenTouch
            /\ (\/ GivenAlignDist = _align_pos_threshold
                \/ given.b.cos_up = _align_rot_threshold
                \/ GivenForward = _align_rot_threshold)
                  => ~ret.info.align_leg_succ
    /\ (Returned /\ DispatchedPhase = 5)
         => /\ ret.info.move_leg_succ
                  <=> /\ GivenMoveDist < _move_pos_threshold
                      /\ given.b.cos_up > _move_rot_threshold
                      /\ GivenForward > _move_rot_threshold
                      /\ GivenTouch
            /\ (\/ GivenMoveDist = _move_pos_threshold
                \/ given.b.cos_up = _move_rot_threshold
                \/ GivenForward = _move_rot_threshold)
                  => ~ret.info.move_leg_succ

\* a move_leg step with the position distance exactly on its threshold and
\* everything else in place, and no success
C22_Witness ==
    /\ Returned /\ DispatchedPhase = 5
    /\ GivenMoveDist = _move_pos_threshold
    /\ given.b.cos_up > _move_rot_threshold
    /\ GivenForward > _move_rot_threshold
    /\ GivenTouch
    /\ ~ret.info.move_leg_succ

-----------------------------------------------------------------------------
(* C23: a connected step in move_leg_fine.                                *)

\* the baselines move_leg_fine carries, and those of the earlier phases
FineBaselines(s) ==
    <<s._prev_move_pos_dist, s._prev_move_ang_dist,
      s._prev_move_forward_ang_dist, s._prev_proj_t, s._prev_proj_l>>
EarlyBaselines(s) ==
    <<s._prev_eef_above_leg_dist, s._prev_eef_leg_dist, s._prev_grasp_dist,
      s._prev_lift_leg_z_dist, s._prev_lift_leg_xy_dist>>

\* C23: on a step dispatched in move_leg_fine with the connect flag true,
\* the phase reward is exactly 0 and the phase reward function changes no
\* baseline and not the _leg_fine_aligned counter: the step leaves the
\* baselines of move_leg_fine as the skip checks left them, and the other
\* baselines and the counter too unless the connection starts a subtask
\* (_update_reward_variables sets those anew).
C23_ConnectedFrame ==
    [][(/\ pc' = "stepped" /\ ~raised'
        /\ ret'.info.phase_i - Len(_phases) * ret'.info.subtask = 6
        /\ ret'.info.connect_succ)
       => LET s3 == AfterSkips(self, given'.b)
          IN  /\ ret'.reward.phase_reward = 0
              /\ FineBaselines(self') = FineBaselines(s3)
              /\ (self'._subtask_step = self._subtask_step
                     \/ self'._subtask_step = _success_num_conn)
                   => /\ EarlyBaselines(self') = EarlyBaselines(s3)
                      /\ self'._leg_fine_aligned = s3._leg_fine_aligned]_vars

\* a connected step that carries a counter of aligned frames on
C23_Witness ==
    /\ Returned /\ DispatchedPhase = 6
    /\ ret.info.connect_succ
    /\ ret.reward.phase_reward = 0
    /\ self._leg_fine_aligned > 0
    /\ self._diff_rew

-----------------------------------------------------------------------------
(* C24: the phase and subtask entries of info.                            *)

\* the phase whose reward function made the info of the last step, read
\* off the success flag that function emits
PhaseOfInfo ==
    LET has(k) == k \in DOMAIN ret.info
    IN  CASE has("move_eef_above_leg_succ") -> 0
          [] has("grasp_leg_succ") -> 2
          [] has("lower_eef_to_leg_succ") -> 1
          [] has("lift_leg_succ") -> 3
          [] has("align_leg_succ") -> 4
          [] has("move_leg_succ") -> 5
          [] has("connect_succ") -> 6

\* C24: on every step info['phase_i'] is the dispatched phase index plus 7
\* times _subtask_step and info['subtask'] is _subtask_step, both as the
\* dispatch found them; info['phase'] is present exactly when the step
\* returns done or is the last step the horizon allows, and is then
\* _phase_i + 7 * _subtask_step as the step leaves them.
C24_InfoPhase ==
    Returned
        => /\ ret.info.phase_i
                 = PhaseOfInfo + Len(_phases) * entry._subtask_step
           /\ Len(_phases) = 7
           /\ ret.info.subtask = entry._subtask_step
           /\ "phase" \in DOMAIN ret.info <=> (ret.done \/ given.last)
           /\ "phase" \in DOMAIN ret.info
                 => ret.info.phase
                        = self._phase_i + 7 * self._subtask_step

\* the last step the horizon allows, not done, in the second subtask, with
\* a forward transition: the logged phase is the one after the transition
C24_Witness ==
    /\ Returned
    /\ given.last /\ ~ret.done
    /\ ret.info.subtask = 1
    /\ ret.info.phase = ret.info.phase_i + 1

-----------------------------------------------------------------------------
(* C25: the step is a function of the internal state and its inputs.      *)

\* the episode runs: the next call is a step
Running == pc \in {"reset", "stepped"} /\ ~raised /\ ~ret.done /\ ~given.last

\* the instances that are in the internal state of s (phase, subtask,
\* baselines and captured positions, one-shot flags, dwell counter,
\* configuration) and differ from it in what the last call left behind:
\* the success flag and the collected values, both overwritten by a step
\* before it reads them
SameInternalState(s) ==
    {[s EXCEPT !._success = x, !._current_values = v] :
        x \in BOOLEAN, v \in {s._current_values, NoValues}}

\* reward = ctrl_penalty + phase_reward + stable_grip_rew + grip_penalty
\*          + phase_bonus + move_other_part_penalty
Total(reward) ==
    reward.ctrl_penalty + reward.phase_reward + reward.stable_grip_rew
        + reward.grip_penalty + reward.phase_bonus
        + reward.move_other_part_penalty

\* what a step of s produces and the state it ends in
Outcome(s, b, e, n, ac, last) ==
    LET out == _compute_reward(s, b, e, n, ac, last)
    IN  IF out.raised
        THEN [raised |-> TRUE, exception |-> out.exception, self |-> out.self]
        ELSE [raised |-> FALSE, reward |-> Total(out.reward),
              done |-> out.done, phase_i |-> out.info.phase_i,
              subtask |-> out.info.subtask, self |-> out.self]

\* C25: the step is deterministic: instances in the same internal state
\* that are given the same snapshot, connect flag and action produce the
\* same reward, done, phase index and subtask index and end in the same
\* internal state.
C25_Deterministic ==
    Running
        => \A b \in PlacedReadsFor(self), last \in BOOLEAN :
             LET s3 == AfterSkips(self, b)
             IN  \A e \in PhaseReads(s3), ac \in PhaseActions[s3._phase_i] :
                   \A n \in NextSubtaskReads(s3, e, PlacementReads) :
                     \E o \in {Outcome(self, b, e, n, ac, last)} :
                       \A t \in SameInternalState(self) \ {self} :
                           Outcome(t, b, e, n, ac, last) = o

\* a running instance that holds the contact the last step collected: the
\* instances in its internal state differ from it
C25_Witness ==
    /\ Running /\ pc = "stepped"
    /\ self._current_values.leg_touched
    /\ self._phase_i = 3
    /\ Cardinality(SameInternalState(self)) = 4

-----------------------------------------------------------------------------
(* C26: the success flags of a step and the history of the run.            *)

\* the keys of the success flags in info
SuccKeys ==
    {"move_eef_above_leg_succ", "lower_eef_to_leg_succ", "grasp_leg_succ",
     "lift_leg_succ", "align_leg_succ", "move_leg_succ",
     "move_leg_fine_succ", "connect_succ", "stable_grip_succ"}

SuccFlags(info) == [k \in SuccKeys \cap DOMAIN info |-> info[k]]

\* another run at the subtask of s: an episode that has just been reset
\* there, the parts placed as p
FreshlyReset(s, p) ==
    _reset_reward_variables(Constructed(s._diff_rew, s._subtask_step), p)

\* the positions the success conditions refer to that an earlier step
\* captured: the lift target (the part position at the subtask start,
\* raised by 0.2) in lift_leg, the part position at the lift success in
\* align_leg
ReferencePos(s, phase_i) ==
    IF phase_i = 3 THEN Some(s._lift_leg_pos)
    ELSE IF phase_i = 4 THEN s._align_leg_pos
    ELSE Unset

\* s without its history: the phase, the subtask and the two captured
\* reference positions stay, every baseline, one-shot flag, counter and
\* start position is replaced by a fixed value
Forgotten(s) ==
    [s EXCEPT !._success = FALSE,
              !._current_values = NoValues,
              !._leg_touched = FALSE,
              !._leg_lift = FALSE,
              !._leg_fine_aligned = 0,
              !._init_table_site_pos = 0,
              !._init_lift_leg_pos = [xy |-> 0, z |-> 0],
              !._prev_eef_above_leg_dist = Some(0),
              !._prev_eef_leg_dist = Some(0),
              !._prev_grasp_dist = Some(0 - 1000),
              !._prev_lift_leg_z_dist = Some(0),
              !._prev_lift_leg_xy_dist = Some(0),
              !._prev_move_pos_dist = Some(0),
              !._prev_move_ang_dist = Some(1000),
              !._prev_move_forward_ang_dist = Some(1000),
              !._prev_proj_t = Some(1000),
              !._prev_proj_l = Some(1000)]

\* the placement a subtask advance of the compared steps reads
APlacement == CHOOSE p \in PlacementReads : TRUE

\* s and t, given the same snapshot, connect flag and action, emit the same
\* success flags when both steps return
SameFlags(s, t, b, e, ac) ==
    LET o1 == _compute_reward(s, b, e, APlacement, ac, FALSE)
        o2 == _compute_reward(t, b, e, APlacement, ac, FALSE)
    IN  (~o1.raised /\ ~o2.raised)
            => SuccFlags(o1.info) = SuccFlags(o2.info)

\* C26 as stated: the success flags of a step are a function of the step's
\* snapshot, connect flag and the thresholds only: a run with any history
\* and a freshly reset run that dispatch the same phase on the same
\* snapshot emit the same success flags.
C26_AsStated ==
    Running
        => \A b \in PlacedReadsFor(self) :
             LET s3 == AfterSkips(self, b)
             IN  \A p \in PlacementReads :
                   LET t == FreshlyReset(self, p)
                   IN  AfterSkips(t, b)._phase_i = s3._phase_i
                         => \A e \in PhaseReads(s3),
                               ac \in PhaseActions[s3._phase_i] :
                                SameFlags(self, t, b, e, ac)

\* C26 (amended): the success flags of a step are a function of the step's
\* snapshot, connect flag, the thresholds and the reference position an
\* earlier step captured for the dispatched phase (_lift_leg_pos in lift_leg,
\* _align_leg_pos in align_leg): a run with any history emits the flags of
\* the run without history, and the flags of every freshly reset run that
\* dispatches the same phase with the same reference position.
C26_SuccessFlags ==
    Running
        => \A b \in PlacedReadsFor(self) :
             LET s3 == AfterSkips(self, b)
             IN  /\ \A e \in PhaseReads(s3), ac \in PhaseActions[s3._phase_i] :
                       SameFlags(self, Forgotten(self), b, e, ac)
                 /\ \A p \in PlacementReads :
                       LET t == FreshlyReset(self, p)
                           t3 == AfterSkips(t, b)
                       IN  (/\ t3._phase_i = s3._phase_i
                            /\ ReferencePos(t3, t3._phase_i)
                                   = ReferencePos(s3, s3._phase_i))
                             => \A e \in PhaseReads(s3),
                                   ac \in PhaseActions[s3._phase_i] :
                                    SameFlags(self, t, b, e, ac)

\* a step dispatched in lift_leg after the part was grasped in this run
\* reports the lift success: a freshly reset run whose part started at
\* another height reports none on the same snapshot
C26_Witness ==
    /\ Returned /\ DispatchedPhase = 3
    /\ entry._phase_i = 3 /\ entry._leg_touched
    /\ ret.info.lift_leg_succ
    /\ \E p \in PlacementReads :
           FreshlyReset(self, p)._lift_leg_pos # self._lift_leg_pos

-----------------------------------------------------------------------------
(* C27, C28: the one-time bonuses.                                         *)

\* C27: the first-contact bonus 10 * _touch_coef of grasp_leg is awarded in
\* at most one step per subtask: a step dispatched in grasp_leg adds it
\* exactly when both fingers touch the part and _leg_touched was not set,
\* and sets _leg_touched; once _leg_touched is set, no later step of the
\* subtask adds it.
C27_TouchBonusOnce ==
    /\ awarded.touch <= 1
    /\ (awarded.touch = 1) => self._leg_touched
    /\ (Returned /\ DispatchedPhase = 2)
          => /\ ret.info.touch_rew
                  = IF GivenTouch /\ ~entry._leg_touched
                    THEN 10 * _touch_coef ELSE 0
             /\ (ret.info.touch_rew # 0) => (awarded.touch = 1)

\* after the bonus was awarded, a later step of the subtask is taken while
\* the contact is lost
C27_Witness ==
    /\ Returned /\ DispatchedPhase >= 3
    /\ awarded.touch = 1
    /\ entry._leg_touched
    /\ ~GivenTouch

\* C28: the lift bonus _phase_bonus / 10 of lift_leg is awarded in at most
\* one step per subtask, and only by a step dispatched in lift_leg in which
\* both fingers touch the part and the part is more than 0.01 above the
\* height it had at the subtask start.
C28_LiftBonusOnce ==
    [][/\ awarded'.lift <= 1
       /\ (awarded'.lift > awarded.lift)
             => /\ pc' = "stepped" /\ ~raised'
                /\ DispatchedPhase' = 3
                /\ GivenTouch'
                /\ given'.b.leg_pos.z > self._init_lift_leg_pos.z + 10
                /\ ~self._leg_lift /\ self'._leg_lift]_vars

\* after the bonus was awarded, a later step of the subtask finds the part
\* touched and lifted again
C28_Witness ==
    /\ Returned /\ DispatchedPhase = 3
    /\ awarded.lift = 1
    /\ entry._leg_lift
    /\ GivenTouch
    /\ given.b.leg_pos.z > self._init_lift_leg_pos.z + 10

-----------------------------------------------------------------------------
(* C29: the position the table displacement is measured from.              *)

\* C29: table_displacement is measured from the target-site position
\* captured at the start of the current subtask: _init_table_site_pos is
\* assigned by the episode reset and by a subtask advance and left unchanged
\* by every other step, phase-skips and forward transitions included; the
\* move-other-part penalty is -coef * table_displacement in every phase.
C29_TableDisplacement ==
    /\ (pc = "reset") => self._init_table_site_pos = given.p.table_site_pos
    /\ (pc = "stepped")
          => self._init_table_site_pos
                = IF SubtaskStarted THEN given.n.table_site_pos
                  ELSE entry._init_table_site_pos
    /\ Returned
          => /\ ret.info.table_displacement
                  = Abs(given.b.table_site_pos - entry._init_table_site_pos)
             /\ ret.info.move_other_part_penalty
                  = (0 - _move_other_part_penalty_coef)
                        * ret.info.table_displacement
             /\ ret.reward.move_other_part_penalty
                  = ret.info.move_other_part_penalty

\* a step that skipped phases, in a subtask that started with the table
\* site off the origin, finds the table displaced and leaves the captured
\* position as it was
C29_Witness ==
    /\ Returned /\ DispatchedPhase > entry._phase_i
    /\ entry._init_table_site_pos # 0
    /\ ret.info.table_displacement > 0
    /\ self._init_table_site_pos = entry._init_table_site_pos

-----------------------------------------------------------------------------
(* C30: the absolute phase index over an episode.                          *)

\* C30: the absolute phase index reported in info['phase_i'] does not
\* decrease from one step of an episode to the next; the step that advances
\* the subtask k reports 7k + 6 and leaves the index at 7(k + 1).
C30_PhaseMonotone ==
    [][/\ (Returned /\ pc' = "stepped" /\ ~raised')
             => ret'.info.phase_i >= ret.info.phase_i
       /\ (pc' = "stepped" /\ ~raised'
               /\ self'._subtask_step # self._subtask_step)
             => /\ ret'.info.phase_i = Len(_phases) * self._subtask_step + 6
                /\ self'._phase_i + Len(_phases) * self'._subtask_step
                       = Len(_phases) * (self._subtask_step + 1)]_vars

\* an episode that began with nothing assembled reports a step of its
\* second subtask
C30_Witness ==
    /\ Returned
    /\ self._preassembled = 0
    /\ ret.info.subtask = 1
    /\ ret.info.phase_i >= Len(_phases)

-----------------------------------------------------------------------------
(* C31: the reasons of done.                                               *)

\* the last step connected the last part of the recipe
CompletedRecipe ==
    /\ DispatchedPhase = 6
    /\ ret.info.connect_succ
    /\ self._subtask_step = _success_num_conn

\* C31: a step returns done=True only for one of three reasons: the
\* contact is lost in a phase from lift_leg onward, the table is displaced
\* by more than 0.1 in a phase from lift_leg onward, or the connect makes
\* _subtask_step equal _success_num_conn; no step dispatched in
\* move_eef_above_leg, lower_eef_to_leg or grasp_leg returns done=True.
C31_DoneReasons ==
    (Returned /\ ret.done)
        => /\ DispatchedPhase >= 3
           /\ \/ ~ret.info.touch
              \/ ret.info.table_displacement > 100
              \/ CompletedRecipe

\* the episode ends by the last connection alone: the part is held and the
\* table is in place
C31_Witness ==
    /\ Returned /\ ret.done
    /\ CompletedRecipe
    /\ ret.info.touch
    /\ ret.info.table_displacement <= 100

-----------------------------------------------------------------------------
(* C32: the phase reward functions a step evaluates.                       *)

\* the info key every call of the reward function of a phase writes
RewardFunctionKey ==
    <<"move_eef_above_leg_succ", "lower_eef_to_leg_succ", "grasp_leg_succ",
      "lift_leg_succ", "align_leg_succ", "move_leg_succ", "connect_succ">>

\* the phases whose reward function the last step evaluated
Evaluated ==
    {i \in 0 .. (Len(_phases) - 1) :
        RewardFunctionKey[i + 1] \in DOMAIN ret.info}

\* C32 as stated: exactly one phase reward function is evaluated per step,
\* the one of the phase index after the skip checks.
C32_AsStated == Returned => Evaluated = {DispatchedPhase}

\* C32 (amended): exactly one branch of the dispatch is taken per step, the
\* one of the phase index after the skip checks, and it evaluates the reward
\* function of that phase, which in grasp_leg evaluates
\* _lower_eef_to_leg_reward as well; the fall-through else branch, which
\* evaluates none, is not reached.
C32_OneBranch ==
    Returned
        => /\ DispatchedPhase \in 0 .. (Len(_phases) - 1)
           /\ Evaluated = IF DispatchedPhase = 2 THEN {1, 2}
                          ELSE {DispatchedPhase}

\* a step dispatched in grasp_leg after the skip checks left the phase
\* where it was
C32_Witness ==
    /\ Returned /\ DispatchedPhase = 2
    /\ "eef_leg_rew" \in DOMAIN ret.info
    /\ "grasp_leg_rew" \in DOMAIN ret.info

-----------------------------------------------------------------------------
(* C33: the order of the skip checks.                                      *)

\* skip check (b) of the last step fired: it was evaluated in lift_leg or
\* align_leg and its criteria held
FineSkipFired == PhaseAtFineSkip \in {3, 4} /\ FineCriteria

\* the phase skip check (c) of the last step was evaluated in
PhaseAtCoarseSkip == IF FineSkipFired THEN 6 ELSE PhaseAtFineSkip

\* skip check (c) of the last step fired
CoarseSkipFired == PhaseAtCoarseSkip = 3 /\ CoarseCriteria

\* C33: the skip checks are evaluated in the order (a), (b), (c) within
\* one step, each seeing the phase index the previous one left: the step is
\* dispatched in the phase (c) leaves, (c) does not fire in a step where (b)
\* fired, and a step that starts in phase 0 or 1 is dispatched where it
\* started or in lift_leg, move_leg or move_leg_fine, never in grasp_leg
\* or align_leg.
C33_SkipOrder ==
    Returned
        => /\ DispatchedPhase = IF CoarseSkipFired THEN 5
                                ELSE PhaseAtCoarseSkip
           /\ FineSkipFired => (~CoarseSkipFired /\ DispatchedPhase = 6)
           /\ (entry._phase_i \in {0, 1})
                 => DispatchedPhase \in {entry._phase_i, 3, 5, 6}

\* a step that starts in an approach phase meets the criteria of all three
\* checks: (a) and (b) fire, (c) does not
C33_Witness ==
    /\ Returned
    /\ entry._phase_i \in {0, 1}
    /\ FineSkipFired /\ CoarseCriteria
    /\ DispatchedPhase = 6

-----------------------------------------------------------------------------
(* C34: the priority of the checks in move_leg_fine.                       *)

\* C34: in move_leg_fine the checks have the priority disturbance, connect,
\* drop: a table displaced by more than 0.1 ends the episode with a
\* phase_bonus of -_phase_bonus / 2 and no subtask advance even when
\* connect_succ is true, and with the table in place connect_succ advances
\* the subtask even when the contact is lost in the same step.
C34_FinePriority ==
    (Returned /\ DispatchedPhase = 6)
        => /\ (ret.info.table_displacement > 100)
                 => /\ ret.done /\ ~self._success
                    /\ ret.info.phase_bonus = (0 - _phase_bonus) \div 2
                    /\ self._subtask_step = entry._subtask_step
           /\ (ret.info.table_displacement <= 100 /\ ret.info.connect_succ)
                 => /\ Connected
                    /\ ret.info.phase_bonus
                          = 5 * _phase_bonus
                              - entry._leg_fine_aligned * _aligned_bonus_coef
                    /\ ret.done = (self._subtask_step = _success_num_conn)

\* the parts connect in a step that finds the contact lost and the table
\* in place: the subtask advances
C34_Witness ==
    /\ Returned /\ DispatchedPhase = 6
    /\ ret.info.connect_succ
    /\ ~ret.info.touch
    /\ ret.info.table_displacement <= 100
    /\ Connected

-----------------------------------------------------------------------------
(* C35: what a failed step and a step without connection leave alone.      *)

\* the last step took the connect branch of move_leg_fine
ConnectStep ==
    /\ Returned /\ DispatchedPhase = 6
    /\ ret.info.table_displacement <= 100
    /\ ret.info.connect_succ

\* C35: a step that ends in failure (drop or disturbance) leaves _phase_i
\* and _subtask_step at the values the skip checks left, and every step
\* that is not a connect step leaves _subtask_step, _leg, _table and the
\* site assignment unchanged.
C35_FailureFrame ==
    [][(pc' = "stepped")
         => /\ (~raised' /\ ret'.done /\ ~self'._success)
                  => /\ self'._phase_i = DispatchedPhase'
                     /\ self'._subtask_step = ret'.info.subtask
            /\ ~ConnectStep'
                  => /\ self'._subtask_step = self._subtask_step
                     /\ self'._leg = self._leg
                     /\ self'._table = self._table
                     /\ self'._leg_site = self._leg_site
                     /\ self'._table_site = self._table_site]_vars

\* a step that skipped phases ends in failure in the second subtask
C35_Witness ==
    /\ Returned /\ Failed
    /\ DispatchedPhase # entry._phase_i
    /\ self._phase_i = DispatchedPhase
    /\ self._subtask_step = 1
    /\ self._leg = _recipe[1].leg

-----------------------------------------------------------------------------
(* C36: the subtask index _update_reward_variables is invoked with.        *)

\* the reward variables are those _update_reward_variables assigns for the
\* subtask i of the recipe
AssignedFor(i) ==
    /\ i \in DOMAIN _recipe
    /\ self._leg = _recipe[i].leg
    /\ self._table = _recipe[i].table
    /\ self._leg_site = _recipe[i].leg_site
    /\ self._table_site = _recipe[i].table_site

\* C36: _update_reward_variables is invoked only with a subtask index
\* below _success_num_conn, an index of the recipe: a reset and a connect
\* that leaves subtasks to do re-initialise for _subtask_step, which is
\* below _success_num_conn; the connect that completes the last subtask
\* returns without re-initialising, leaving _phase_i = 0, the parts of the
\* last subtask and a reported info['phase'] of 7 * _success_num_conn.
C36_UpdateInRange ==
    /\ SubtaskStarted
          => /\ self._subtask_step < _success_num_conn
             /\ AssignedFor(self._subtask_step)
             /\ self._phase_i = 0
    /\ (ConnectStep /\ entry._subtask_step = _success_num_conn - 1)
          => /\ self._subtask_step = _success_num_conn
             /\ ret.done /\ self._success
             /\ AssignedFor(_success_num_conn - 1)
             /\ self._phase_i = 0
             /\ ret.info.phase = Len(_phases) * _success_num_conn
    /\ (pc = "stepped" /\ ~ConnectStep)
          => AssignedFor(self._subtask_step)

\* the last part of a recipe that began with nothing assembled is
\* connected
C36_Witness ==
    /\ ConnectStep
    /\ self._subtask_step = _success_num_conn
    /\ self._phase_i = 0
    /\ ret.info.phase = Len(_phases) * _success_num_conn
    /\ self._preassembled = 0

-----------------------------------------------------------------------------
(* C37: bounded progress.                                                  *)

\* the absolute phase index the last step started with and the one it left
AbsIndexBefore == entry._phase_i + Len(_phases) * entry._subtask_step
AbsIndexAfter == self._phase_i + Len(_phases) * self._subtask_step

\* the success flag of the phase the last step was dispatched in; a step
\* that raised in grasp_leg had set grasp_leg_succ to the contact flag
\* before
DispatchedSucc ==
    IF raised THEN StepPhase = 2 /\ GivenTouch
    ELSE ret.info[RewardFunctionKey[DispatchedPhase + 1]]

\* the last step found what the claim supposes of every step: contact, a
\* stable grip, the table in place and the success flag of the dispatched
\* phase
GoodStep ==
    /\ pc = "stepped"
    /\ GivenTouch
    /\ given.b.eef_up_grasp_dist > 1000 - _rot_threshold
    /\ Abs(given.b.eef_forward_grasp_dist) > 1000 - _rot_threshold
    /\ Abs(given.b.table_site_pos - entry._init_table_site_pos) <= 100
    /\ DispatchedSucc

\* such a step, when it returns, moves the absolute phase index forward,
\* to at most 7 * _success_num_conn, which is the successful end: 7 steps
\* at most complete a subtask
ProgressOfReturnedSteps ==
    (GoodStep /\ ~raised)
        => /\ AbsIndexAfter > AbsIndexBefore
           /\ AbsIndexAfter <= Len(_phases) * _success_num_conn
           /\ ret.done = (AbsIndexAfter = Len(_phases) * _success_num_conn)
           /\ ret.done => self._success

\* C37 as stated: from any non-terminal state, if every subsequent step
\* finds contact, a stable grip, the table displaced by at most 0.1 and the
\* success flag of its dispatched phase true, the episode reaches done=True
\* with success within 7 * (_success_num_conn - _subtask_step) steps: every
\* such step returns and moves the absolute phase index forward until it
\* is 7 * _success_num_conn.  In absolute mode such a step dispatched in
\* grasp_leg raises AttributeError, and the episode never returns done.
C37_AsStated == GoodStep => (~raised /\ ProgressOfReturnedSteps)

(***************************************************************************)
(* C38: UniformRandomSampler.sample either raises RandomizationError, and  *)
(* then after the allowed number of failed attempts for some object, or    *)
(* returns poses in which the xy centre of every newly placed object is    *)
(* farther than the sum of the two horizontal radii from the xy centre of  *)
(* every object placed before it, the preset objects included; it never    *)
(* returns an overlapping placement.                                       *)
(***************************************************************************)
\* The xy centre sample reports for the k-th placed object: the returned
\* pose of a newly placed one, the preset pose of a preset one.
FartherThanRadii(j, k) ==
    LET Centre(n) ==
            LET po == sampler.placed_objects[n]
            IN  IF n > sampler.orig THEN sampler.pos_arr[po.name][1]
                ELSE <<table_top_offset + po.x, table_top_offset + po.y>>
        a == Centre(j)
        b == Centre(k)
        rr == sampler.placed_objects[j].r + sampler.placed_objects[k].r
    IN  (a[1] - b[1]) * (a[1] - b[1]) + (a[2] - b[2]) * (a[2] - b[2]) > rr * rr

C38_NoOverlap ==
    /\ sampler.pc = "raised" => sampler.i = MaxAttempts /\ sampler.objects # << >>
    /\ sampler.pc = "returned" =>
         /\ sampler.objects = << >>
         /\ \A j \in (sampler.orig + 1) .. Len(sampler.placed_objects) :
              /\ sampler.pos_arr[sampler.placed_objects[j].name] # Unset
              /\ \A k \in 1 .. (j - 1) : FartherThanRadii(j, k)

\* sample returned after placing three objects next to a preset one.
C38_Witness ==
    /\ sampler.pc = "returned"
    /\ sampler.orig = 1
    /\ Len(sampler.placed_objects) = 4

====
